---- MODULE Spec2Model ----
(***************************************************************************)
(* Folder Structure Visualizer (src/src/App.jsx): the node store, the      *)
(* structural mutators (removeSubtree, moveNode, addItem, moveSelectedTo,  *)
(* the drop resolver onDragEnd, ...) and the App component's handlers.     *)
(*                                                                         *)
(* Representation.  An id is a string; ROOT_ID is "root" and uid() draws   *)
(* from IdPool.  JS null / undefined / "" (a falsy id) is Null.  A store   *)
(* is a function from the ids it holds to node records: a folder is        *)
(* [id, kind, name, parent, children, isOpen], a file [id, kind, name,     *)
(* parent].  A JS string is a sequence of symbols, " " being whitespace.   *)
(* A JS array is a sequence; JS indices are 0-based and kept 0-based in    *)
(* indexOf, splice and arrayMove.                                          *)
(***************************************************************************)
EXTENDS Integers, Sequences, FiniteSets, TLC

VARIABLES
    nodes,       \* useState(nodes): the store
    selectedId,  \* useState(selectedId): Null or an id
    nextId,      \* how many ids uid() has handed out, plus one
    drawn,       \* the ids uid() has handed out, in the order of the calls
    addParent,   \* useState(addParent): the parent the add form has chosen
    search,      \* useState(search): what the search input holds
    timers,      \* the ids of the setTimeout callbacks of jumpToFirstMatch not yet run
    ui,          \* "ok" | "crashed" (a render threw) | "hung" (a loop never ends)
    prev,        \* the store a recorded call of a pure mutator was given
    last         \* the recorded call: [op, a, b, mode]

vars == <<nodes, selectedId, nextId, drawn, addParent, search, timers, ui, prev, last>>

ROOT_ID == "root"
Null == "null"

(* ------------------------------ bounds -------------------------------- *)
\* uid() is called at most MaxIds times in a session of the page.
MaxIds == 2
\* A store handed to a recorded call of a pure mutator holds at most
\* MaxCallIds nodes besides the root.
MaxCallIds == 3

\* uid() is called at most MaxDraws times in a session in which Math.random
\* may repeat itself.
MaxDraws == 3

IdPool == <<"n1", "n2", "n3", "n4", "n5", "n6">>
\* The ids the handlers are given: the root and every id uid() can return
\* (one that is not, or no longer, in the store is an absent id).
Ids == {ROOT_ID} \cup {IdPool[i] : i \in 1..MaxIds}
CallIds == {ROOT_ID} \cup {IdPool[i] : i \in 1..MaxCallIds}

\* What the name inputs (add name, rename value, root name) may hold.
RawNames == {<<>>, <<" ", "a", " ">>}
Kinds == {"folder", "file"}
Modes == {"into", "before", "after"}

(* ------------------------------ helpers ------------------------------- *)
Range(s) == {s[i] : i \in 1..Len(s)}

\* uid(): Math.random().toString(16).slice(2, 10).  IdPool is what its calls
\* return, in order, in a session in which Math.random never repeats a
\* value: the n-th call returns uid(n).  (NextUid drops that assumption.)
uid(n) == IdPool[n]

RECURSIVE trimStart(_)
trimStart(s) == IF s # <<>> /\ Head(s) = " " THEN trimStart(Tail(s)) ELSE s

RECURSIVE trimEnd(_)
trimEnd(s) ==
    IF s # <<>> /\ s[Len(s)] = " " THEN trimEnd(SubSeq(s, 1, Len(s) - 1)) ELSE s

\* String.prototype.trim
trim(s) == trimEnd(trimStart(s))

\* nodes[id] is defined
Has(ns, id) == id \in DOMAIN ns

\* nodes[id]?.kind === "folder"
IsFolder(ns, id) == Has(ns, id) /\ ns[id].kind = "folder"

\* arr.filter((cid) => cid !== x)
filterOut(arr, x) == SelectSeq(arr, LAMBDA c : c # x)

\* arr.indexOf(x): 0-based, -1 when absent
indexOf(arr, x) ==
    IF \E i \in 1..Len(arr) : arr[i] = x
    THEN (CHOOSE i \in 1..Len(arr) : arr[i] = x /\ \A j \in 1..(i - 1) : arr[j] # x) - 1
    ELSE -1

\* arr.splice(start, 0, x): insert x at 0-based start (clamped as JS clamps it)
spliceIn(arr, start, x) ==
    LET at == IF start < 0
              THEN (IF Len(arr) + start < 0 THEN 0 ELSE Len(arr) + start)
              ELSE (IF start > Len(arr) THEN Len(arr) ELSE start)
    IN SubSeq(arr, 1, at) \o <<x>> \o SubSeq(arr, at + 1, Len(arr))

\* arr.splice(from, 1): the array without its element at 0-based from
spliceOut(arr, from) ==
    IF from < 0 \/ from >= Len(arr) THEN arr
    ELSE SubSeq(arr, 1, from) \o SubSeq(arr, from + 2, Len(arr))

\* arrayMove of @dnd-kit/sortable: the element at from removed, then put at to
arrayMove(arr, from, to) ==
    IF from < 0 \/ from >= Len(arr) THEN arr
    ELSE spliceIn(spliceOut(arr, from), IF to < 0 THEN Len(arr) + to ELSE to, arr[from + 1])

(* ---------------------------- node store ------------------------------ *)
folderNode(id, name, parent) ==
    [id |-> id, kind |-> "folder", name |-> name, parent |-> parent,
     children |-> <<>>, isOpen |-> TRUE]

fileNode(id, name, parent) ==
    [id |-> id, kind |-> "file", name |-> name, parent |-> parent]

defaultState ==
    ROOT_ID :> [id |-> ROOT_ID, kind |-> "folder", name |-> <<"PROJECT">>,
                parent |-> Null, children |-> <<>>, isOpen |-> TRUE]

\* The parent walk of isDescendant: "true", "false", or "loop" when the
\* while loop never ends (the parent chain runs into a cycle that does not
\* hold maybeAncestorId).
RECURSIVE parentWalk(_, _, _, _)
parentWalk(ns, curId, maybeAncestorId, seen) ==
    IF ~Has(ns, curId) THEN "false"
    ELSE IF ns[curId].parent = Null THEN "false"
    ELSE IF ns[curId].parent = maybeAncestorId THEN "true"
    ELSE IF ns[curId].parent \in seen THEN "loop"
    ELSE parentWalk(ns, ns[curId].parent, maybeAncestorId,
                    seen \cup {ns[curId].parent})

\* Mutant of isDescendant: looks at the node's own parent and stops there.
isDescendantParentOnly(ns, nodeId, maybeAncestorId) ==
    Has(ns, nodeId) /\ ns[nodeId].parent = maybeAncestorId

isDescendant(ns, nodeId, maybeAncestorId) ==
    parentWalk(ns, nodeId, maybeAncestorId, {nodeId}) = "true"

isDescendantLoops(ns, nodeId, maybeAncestorId) ==
    parentWalk(ns, nodeId, maybeAncestorId, {nodeId}) = "loop"

\* The children a walk over the children arrays visits below id.
Kids(ns, id) == IF IsFolder(ns, id) THEN Range(ns[id].children) ELSE {}

RECURSIVE Closure(_, _, _)
Closure(ns, frontier, acc) ==
    IF frontier \subseteq acc THEN acc
    ELSE Closure(ns, UNION {Kids(ns, x) : x \in frontier \ acc}, acc \cup frontier)

\* Every id reached from id by one or more children links.
Below(ns, id) == Closure(ns, Kids(ns, id), {})

\* A walk down the children arrays from id never ends: it reaches a cycle.
walkLoops(ns, id) == \E x \in {id} \cup Below(ns, id) : x \in Below(ns, x)

\* Mutant of collectStack: pushes the children of the first entry only.
collectStackChildrenOnly(ns, stack, i) ==
    stack \o (IF IsFolder(ns, stack[1]) THEN ns[stack[1]].children ELSE <<>>)

\* removeSubtree's "collect subtree ids" loop (only when it ends).
RECURSIVE collectStack(_, _, _)
collectStack(ns, stack, i) ==
    IF i > Len(stack) THEN stack
    ELSE collectStack(ns,
                      stack \o (IF IsFolder(ns, stack[i]) THEN ns[stack[i]].children ELSE <<>>),
                      i + 1)

removeSubtree(ns, nodeId) ==
    LET parentId == IF Has(ns, nodeId) THEN ns[nodeId].parent ELSE Null
        stack    == collectStack(ns, <<nodeId>>, 1)
        copy     == IF parentId # Null /\ IsFolder(ns, parentId)
                    THEN [ns EXCEPT ![parentId].children = filterOut(@, nodeId)]
                    ELSE ns
        gone     == Range(stack) \ {ROOT_ID}
    IN [id \in (DOMAIN copy) \ gone |-> copy[id]]

\* Mutant of moveSibling: pushes activeId at the end of the target's parent.
moveSiblingAppends(ns, copy, activeId, overId, mode) ==
    LET targetParentId == IF copy[overId].parent # Null THEN copy[overId].parent ELSE ROOT_ID
    IN IF ~IsFolder(copy, targetParentId) THEN ns
       ELSE [copy EXCEPT ![activeId].parent = targetParentId,
                         ![targetParentId].children = Append(@, activeId)]

\* moveNode's "sibling move" tail, on the copy that has lost activeId.
moveSibling(ns, copy, activeId, overId, mode) ==
    LET targetParentId == IF copy[overId].parent # Null THEN copy[overId].parent ELSE ROOT_ID
    IN IF ~IsFolder(copy, targetParentId) THEN ns
       ELSE LET copy2    == [copy EXCEPT ![activeId].parent = targetParentId]
                idx      == indexOf(copy2[targetParentId].children, overId)
                insertAt == IF mode = "before" THEN (IF idx < 0 THEN 0 ELSE idx) ELSE idx + 1
            IN [copy2 EXCEPT ![targetParentId].children = spliceIn(@, insertAt, activeId)]

\* Mutant of moveInto: hands back the edited copy when the target is no folder.
moveIntoReturnsCopy(ns, copy, activeId, overId) ==
    IF copy[overId].kind # "folder" THEN copy
    ELSE [copy EXCEPT ![activeId].parent = overId,
                      ![overId].children = Append(@, activeId),
                      ![overId].isOpen = TRUE]

\* moveNode's "into" branch, on the copy that has lost activeId.
moveInto(ns, copy, activeId, overId) ==
    IF copy[overId].kind # "folder" THEN ns
    ELSE [copy EXCEPT ![activeId].parent = overId,
                      ![overId].children = Append(@, activeId),
                      ![overId].isOpen = TRUE]

moveNode(ns, activeId, overId, mode) ==
    IF ~Has(ns, activeId) \/ ~Has(ns, overId) THEN ns
    ELSE IF activeId = ROOT_ID THEN ns
    ELSE IF activeId = overId THEN ns
    ELSE IF ns[activeId].kind = "folder" /\ mode = "into"
            /\ isDescendant(ns, overId, activeId) THEN ns
    ELSE IF ns[activeId].kind = "folder" /\ mode \in {"before", "after"}
            /\ isDescendant(ns, ns[overId].parent, activeId) THEN ns
    ELSE LET oldParent == ns[activeId].parent
             copy == IF IsFolder(ns, oldParent)
                     THEN [ns EXCEPT ![oldParent].children = filterOut(@, activeId)]
                     ELSE ns
         IN IF mode = "into"
            THEN moveInto(ns, copy, activeId, overId)
            ELSE moveSibling(ns, copy, activeId, overId, mode)

\* moveNode never returns: one of its isDescendant walks loops.
moveNodeLoops(ns, activeId, overId, mode) ==
    /\ Has(ns, activeId) /\ Has(ns, overId)
    /\ activeId # ROOT_ID /\ activeId # overId
    /\ ns[activeId].kind = "folder"
    /\ IF mode = "into" THEN isDescendantLoops(ns, overId, activeId)
       ELSE isDescendantLoops(ns, ns[overId].parent, activeId)

\* Mutant of setChildrenOrder: keeps the children when newOrder does not
\* hold the same ids.
setChildrenOrderValidates(ns, parentId, newOrder) ==
    IF "children" \in DOMAIN ns[parentId]
       /\ Range(newOrder) = Range(ns[parentId].children)
       /\ Len(newOrder) = Len(ns[parentId].children)
    THEN [ns EXCEPT ![parentId] = [children |-> newOrder] @@ @]
    ELSE ns

\* setChildrenOrder where copy[parentId] is a node (a file gets a children
\* field).
setChildrenOrder(ns, parentId, newOrder) ==
    [ns EXCEPT ![parentId] = [children |-> newOrder] @@ @]

\* copy[parentId] is undefined: the assignment to its children throws.
setChildrenOrderThrows(ns, parentId) == ~Has(ns, parentId)

(* ------------------------------ templates ----------------------------- *)
\* A nested description is a record with optional fields name, kind and
\* children (a sequence of nested descriptions).  What is no such object is
\* kept as far as buildFromNested looks at it: null is NullEntry, a children
\* field that is truthy and no array is the field notArray, and any other
\* value without fields (a string, a number, an array) is the empty record.
NullEntry == [null |-> TRUE]

\* c is null: reading c.kind throws
isNullEntry(c) == "null" \in DOMAIN c

\* c.children || [] is no array: its forEach is undefined, calling it throws
notArray(c) == "notArray" \in DOMAIN c
File(n) == [name |-> <<n>>, kind |-> "file"]
Folder(n, ch) == [name |-> <<n>>, kind |-> "folder", children |-> ch]

TEMPLATES ==
    [ReactApp |->
        Folder("my-react-app",
               <<Folder("src", <<File("App.jsx"), File("main.jsx")>>),
                 Folder("public", <<>>),
                 File("package.json"), File("vite.config.js"),
                 File("README.md"), File(".gitignore")>>),
     PythonPackage |->
        Folder("my-python-project",
               <<Folder("src", <<Folder("my_package", <<File("__init__.py")>>)>>),
                 Folder("tests", <<File("test_smoke.py")>>),
                 File("pyproject.toml"), File("README.md"),
                 File("requirements.txt"), File(".gitignore")>>),
     WritingProject |->
        Folder("my-book",
               <<Folder("chapters", <<File("01-opening.md"), File("02-middle.md")>>),
                 Folder("notes", <<File("research.md"), File("ideas.md")>>),
                 Folder("assets", <<File("cover.png")>>),
                 File("README.md")>>)]

\* c.name || dflt: a missing or empty name takes the default
nameOr(c, dflt) == IF "name" \in DOMAIN c /\ c.name # <<>> THEN c.name ELSE dflt

\* c.kind || "folder"
kindOr(c) == IF "kind" \in DOMAIN c /\ c.kind # "" THEN c.kind ELSE "folder"

\* c.children || []
childrenOr(c) == IF "children" \in DOMAIN c THEN c.children ELSE <<>>

\* How many ids addChildren draws for a sequence of nested children.
RECURSIVE nestedSize(_)
nestedSize(children) ==
    IF children = <<>> THEN 0
    ELSE LET c == Head(children)
         IN 1 + (IF kindOr(c) = "folder"
                 THEN nestedSize(childrenOr(c)) ELSE 0)
              + nestedSize(Tail(children))

\* The first k nodes, in the order addChildren visits them, of a sequence of
\* nested children: what of a template fits the ids uid() has left.
RECURSIVE firstNodes(_, _)
firstNodes(children, k) ==
    IF k <= 0 \/ children = <<>> THEN <<>>
    ELSE LET c   == Head(children)
             sub == IF kindOr(c) = "folder" THEN firstNodes(childrenOr(c), k - 1) ELSE <<>>
             c2  == IF "children" \in DOMAIN c THEN [c EXCEPT !.children = sub] ELSE c
         IN <<c2>> \o firstNodes(Tail(children), k - 1 - nestedSize(sub))

\* What buildFromNested is left with when a push throws: nodes[parentId]
\* has been overwritten by a file, which has no children array.
Thrown == <<>>

threw(ns) == DOMAIN ns = {}

\* nodes[id] = node; nodes[parentId].children.push(id)
putChild(ns, parentId, id, node) ==
    LET put == (id :> node) @@ ns
    IN IF put[parentId].kind # "folder" THEN Thrown
       ELSE [put EXCEPT ![parentId].children = Append(@, id)]

\* How many times buildFromNested calls uid() for a sequence of nested
\* children before it returns (ok) or throws (~ok).
RECURSIVE uidCalls(_)
uidCalls(children) ==
    IF children = <<>> THEN [n |-> 0, ok |-> TRUE]
    ELSE LET c == Head(children)
         IN IF isNullEntry(c) THEN [n |-> 1, ok |-> FALSE]
            ELSE IF kindOr(c) = "folder" /\ notArray(c) THEN [n |-> 1, ok |-> FALSE]
            ELSE LET sub == IF kindOr(c) = "folder" THEN uidCalls(childrenOr(c))
                            ELSE [n |-> 0, ok |-> TRUE]
                     rest == uidCalls(Tail(children))
                 IN IF ~sub.ok THEN [n |-> 1 + sub.n, ok |-> FALSE]
                    ELSE [n |-> 1 + sub.n + rest.n, ok |-> rest.ok]

\* addChildren(parentId, children) of buildFromNested; the calls of uid()
\* return draws[n], draws[n + 1], ... in the order of the calls.
RECURSIVE addChildren(_, _, _, _, _)
addChildren(ns, parentId, children, draws, n) ==
    IF children = <<>> \/ threw(ns) THEN ns
    ELSE LET c    == Head(children)
             id   == draws[n]
             kind == kindOr(c)
             name == nameOr(c, <<"untitled">>)
             withC == IF isNullEntry(c) THEN Thrown
                      ELSE IF kind = "folder"
                      THEN (IF notArray(c) THEN Thrown
                            ELSE addChildren(putChild(ns, parentId, id,
                                                      folderNode(id, name, parentId)),
                                             id, childrenOr(c), draws, n + 1))
                      ELSE putChild(ns, parentId, id,
                                    [id |-> id, kind |-> kind, name |-> name,
                                     parent |-> parentId])
         IN addChildren(withC, parentId, Tail(children), draws,
                        n + 1 + (IF kind = "folder"
                                 THEN nestedSize(childrenOr(c)) ELSE 0))

\* buildFromNested(nested), uid() returning draws[n], draws[n + 1], ...
buildFromNestedWith(nested, draws, n) ==
    IF notArray(nested) THEN Thrown
    ELSE addChildren([defaultState EXCEPT ![ROOT_ID].name = nameOr(nested, <<"PROJECT">>)],
                     ROOT_ID, childrenOr(nested), draws, n)

buildFromNested(nested, n) == buildFromNestedWith(nested, IdPool, n)

\* toNested(nodes, rootId): build(id) of a node and, for a folder, of its
\* children in order (only where the walk ends and meets no missing node).
RECURSIVE toNestedBuild(_, _)
toNestedBuild(ns, id) ==
    IF ns[id].kind = "folder"
    THEN [name |-> ns[id].name, kind |-> ns[id].kind,
          children |-> [i \in 1..Len(ns[id].children) |->
                           toNestedBuild(ns, ns[id].children[i])]]
    ELSE [name |-> ns[id].name, kind |-> ns[id].kind]

toNested(ns, rootId) == toNestedBuild(ns, rootId)

(* -------------------------------- JSON -------------------------------- *)
\* A JSON value is a tagged record; a JSON text is a sequence of symbols:
\* the punctuation { } [ ] : , the quote and the backslash, the literals
\* true, false and null, the white space " " and "\n", and inside a string
\* the symbols of the string.  An id or a key is a string of one symbol; a
\* number is one of the one-symbol literals of Digits.
JNull == [t |-> "null"]
JBool(b) == [t |-> "bool", b |-> b]
JStr(s) == [t |-> "str", s |-> s]
JNum(n) == [t |-> "num", n |-> n]
JArr(items) == [t |-> "arr", items |-> items]
JObj(keys, vals) == [t |-> "obj", keys |-> keys, vals |-> vals]

Quote == "\""
Backslash == "\\"
Digits == [n \in {0, 7} |-> IF n = 0 THEN "0" ELSE "7"]

\* Mutant of escape: writes every symbol as it is.
escapeNothing(s) == s

\* JSON.stringify of the inside of a string: quote and backslash escaped.
RECURSIVE escape(_)
escape(s) ==
    IF s = <<>> THEN <<>>
    ELSE (IF Head(s) \in {Quote, Backslash} THEN <<Backslash, Head(s)>> ELSE <<Head(s)>>)
         \o escape(Tail(s))

\* JSON.stringify(v, null, 2): a line break after every opening bracket and
\* every comma, a blank after every colon.
RECURSIVE stringify(_)
RECURSIVE stringifyList(_, _, _)
stringifyList(keys, vals, i) ==
    IF i > Len(vals) THEN <<>>
    ELSE (IF i > 1 THEN <<",", "\n">> ELSE <<>>)
         \o (IF keys = <<>> THEN <<>>
             ELSE <<Quote>> \o escape(keys[i]) \o <<Quote, ":", " ">>)
         \o stringify(vals[i])
         \o stringifyList(keys, vals, i + 1)

stringify(v) ==
    CASE v.t = "null" -> <<"null">>
      [] v.t = "bool" -> IF v.b THEN <<"true">> ELSE <<"false">>
      [] v.t = "str"  -> <<Quote>> \o escape(v.s) \o <<Quote>>
      [] v.t = "num"  -> <<Digits[v.n]>>
      [] v.t = "arr"  -> IF v.items = <<>> THEN <<"[", "]">>
                         ELSE <<"[", "\n">> \o stringifyList(<<>>, v.items, 1) \o <<"\n", "]">>
      [] v.t = "obj"  -> IF v.vals = <<>> THEN <<"{", "}">>
                         ELSE <<"{", "\n">> \o stringifyList(v.keys, v.vals, 1) \o <<"\n", "}">>

\* JSON.parse: [ok, v, next]; ok is FALSE where JSON.parse throws.
Fail == [ok |-> FALSE, v |-> JNull, next |-> 0]
Parsed(v, next) == [ok |-> TRUE, v |-> v, next |-> next]

RECURSIVE skipWs(_, _)
skipWs(txt, i) ==
    IF i <= Len(txt) /\ txt[i] \in {" ", "\n"} THEN skipWs(txt, i + 1) ELSE i

\* The string whose opening quote stands before position i.
RECURSIVE scanString(_, _, _)
scanString(txt, i, acc) ==
    IF i > Len(txt) THEN Fail
    ELSE IF txt[i] = Quote THEN Parsed(JStr(acc), i + 1)
    ELSE IF txt[i] = Backslash
    THEN (IF i + 1 > Len(txt) THEN Fail
          ELSE scanString(txt, i + 2, Append(acc, txt[i + 1])))
    ELSE scanString(txt, i + 1, Append(acc, txt[i]))

RECURSIVE parseValue(_, _)
RECURSIVE parseItems(_, _, _)
RECURSIVE parseMembers(_, _, _, _)
parseItems(txt, i, acc) ==
    LET r == parseValue(txt, i)
    IN IF ~r.ok THEN Fail
       ELSE LET j == skipWs(txt, r.next)
            IN IF j > Len(txt) THEN Fail
               ELSE IF txt[j] = "," THEN parseItems(txt, j + 1, Append(acc, r.v))
               ELSE IF txt[j] = "]" THEN Parsed(JArr(Append(acc, r.v)), j + 1)
               ELSE Fail

parseMembers(txt, i0, keys, vals) ==
    LET i == skipWs(txt, i0)
    IN IF i > Len(txt) \/ txt[i] # Quote THEN Fail
       ELSE LET k == scanString(txt, i + 1, <<>>)
            IN IF ~k.ok THEN Fail
               ELSE LET c == skipWs(txt, k.next)
                    IN IF c > Len(txt) \/ txt[c] # ":" THEN Fail
                       ELSE LET r == parseValue(txt, c + 1)
                            IN IF ~r.ok THEN Fail
                               ELSE LET j == skipWs(txt, r.next)
                                    IN IF j > Len(txt) THEN Fail
                                       ELSE IF txt[j] = ","
                                       THEN parseMembers(txt, j + 1, Append(keys, k.v.s),
                                                         Append(vals, r.v))
                                       ELSE IF txt[j] = "}"
                                       THEN Parsed(JObj(Append(keys, k.v.s),
                                                        Append(vals, r.v)), j + 1)
                                       ELSE Fail

parseValue(txt, i0) ==
    LET i == skipWs(txt, i0)
    IN IF i > Len(txt) THEN Fail
       ELSE CASE txt[i] = "null"  -> Parsed(JNull, i + 1)
              [] txt[i] = "true"  -> Parsed(JBool(TRUE), i + 1)
              [] txt[i] = "false" -> Parsed(JBool(FALSE), i + 1)
              [] txt[i] = Quote   -> scanString(txt, i + 1, <<>>)
              [] \E n \in DOMAIN Digits : txt[i] = Digits[n] ->
                    Parsed(JNum(CHOOSE n \in DOMAIN Digits : txt[i] = Digits[n]), i + 1)
              [] txt[i] = "["     ->
                    LET j == skipWs(txt, i + 1)
                    IN IF j <= Len(txt) /\ txt[j] = "]" THEN Parsed(JArr(<<>>), j + 1)
                       ELSE parseItems(txt, i + 1, <<>>)
              [] txt[i] = "{"     ->
                    LET j == skipWs(txt, i + 1)
                    IN IF j <= Len(txt) /\ txt[j] = "}" THEN Parsed(JObj(<<>>, <<>>), j + 1)
                       ELSE parseMembers(txt, i + 1, <<>>, <<>>)
              [] OTHER -> Fail

JSONparse(txt) ==
    LET r == parseValue(txt, 1)
    IN IF r.ok /\ skipWs(txt, r.next) > Len(txt) THEN r ELSE Fail

\* obj.key of a parsed value: undefined when obj is no object or lacks the
\* key; of a key written twice, the last.
JUndefined == [t |-> "undefined"]

field(v, key) ==
    IF v.t # "obj" THEN JUndefined
    ELSE LET at == {i \in 1..Len(v.keys) : v.keys[i] = <<key>>}
         IN IF at = {} THEN JUndefined
            ELSE v.vals[CHOOSE i \in at : \A j \in at : j <= i]

truthy(v) ==
    CASE v.t \in {"undefined", "null"} -> FALSE
      [] v.t = "bool" -> v.b
      [] v.t = "str"  -> v.s # <<>>
      [] v.t = "num"  -> v.n # 0
      [] OTHER        -> TRUE

\* The keys of an object, in the order Object.keys gives them.
RECURSIVE keysOf(_)
keysOf(S) ==
    IF S = {} THEN <<>>
    ELSE LET x == CHOOSE x \in S : TRUE IN <<x>> \o keysOf(S \ {x})

idJson(id) == IF id = Null THEN JNull ELSE JStr(<<id>>)

\* A node record as a JSON value, its keys in the order they were written.
nodeJson(n) ==
    IF "children" \in DOMAIN n
    THEN JObj(<< <<"id">>, <<"kind">>, <<"name">>, <<"parent">>, <<"children">>, <<"isOpen">> >>,
              << idJson(n.id), JStr(<<n.kind>>), JStr(n.name), idJson(n.parent),
                 JArr([i \in 1..Len(n.children) |-> idJson(n.children[i])]),
                 JBool(n.isOpen) >>)
    ELSE JObj(<< <<"id">>, <<"kind">>, <<"name">>, <<"parent">> >>,
              << idJson(n.id), JStr(<<n.kind>>), JStr(n.name), idJson(n.parent) >>)

storeJson(ns) ==
    LET ks == keysOf(DOMAIN ns)
    IN JObj([i \in 1..Len(ks) |-> <<ks[i]>>], [i \in 1..Len(ks) |-> nodeJson(ns[ks[i]])])

\* The text of a flat file { root_id, nodes }.
flatText(rootId, ns) ==
    stringify(JObj(<< <<"root_id">>, <<"nodes">> >>, << JStr(rootId), storeJson(ns) >>))

\* exportJson: JSON.stringify({ root_id: ROOT_ID, nodes }, null, 2)
exportJson(ns) == flatText(<<ROOT_ID>>, ns)

\* A parsed string as an id or a key, a parsed null as no id.
atom(s) == IF Len(s) = 1 THEN s[1] ELSE ""

idOf(v) == IF v.t = "str" THEN atom(v.s) ELSE Null

\* A parsed node record (its fields of the types the data model gives them)
\* as a node of the store.
nodeOf(o) ==
    LET base == [id |-> idOf(field(o, "id")), kind |-> idOf(field(o, "kind")),
                 name |-> field(o, "name").s, parent |-> idOf(field(o, "parent"))]
    IN IF field(o, "children").t = "arr"
       THEN base @@ [children |-> [i \in 1..Len(field(o, "children").items) |->
                                      idOf(field(o, "children").items[i])],
                     isOpen |-> truthy(field(o, "isOpen"))]
       ELSE base

\* What setNodes(data.nodes) makes the store: the parsed object, or, when
\* data.nodes is no object, a value that holds no node at all.
storeOf(v) ==
    IF v.t # "obj" THEN <<>>
    ELSE [id \in {atom(v.keys[i]) : i \in 1..Len(v.keys)} |->
             nodeOf(field(v, id))]

\* A parsed value as the nested description buildFromNested reads.
RECURSIVE nestedOf(_)
nestedOf(v) ==
    IF v.t = "null" THEN NullEntry
    ELSE
    (IF field(v, "name").t = "str" THEN [name |-> field(v, "name").s] ELSE <<>>)
    @@ (IF field(v, "kind").t = "str" THEN [kind |-> atom(field(v, "kind").s)] ELSE <<>>)
    @@ (IF field(v, "children").t = "arr"
        THEN [children |-> [i \in 1..Len(field(v, "children").items) |->
                               nestedOf(field(v, "children").items[i])]]
        ELSE IF truthy(field(v, "children")) THEN [notArray |-> TRUE]
        ELSE <<>>)

\* Which branch reader.onload takes for the text of the file.
importBranch(text) ==
    LET r == JSONparse(text)
        data == r.v
    IN IF ~r.ok THEN "failed"              \* JSON.parse throws: alert
       ELSE IF truthy(field(data, "nodes")) /\ truthy(field(data, "root_id"))
       THEN "flat"
       ELSE IF /\ truthy(data)
               /\ \/ (field(data, "kind").t = "str" /\ field(data, "kind").s = <<"folder">>)
                  \/ ~truthy(field(data, "kind"))
       THEN "nested"
       ELSE "unrecognized"                 \* alert

(* ------------------------------- exports ------------------------------ *)
\* lines.join("\n")
RECURSIVE join(_)
join(lines) ==
    IF lines = <<>> THEN <<>>
    ELSE IF Len(lines) = 1 THEN lines[1]
    ELSE lines[1] \o <<"\n">> \o join(Tail(lines))

\* The box-drawing characters of unicodeTree, one symbol each: "L" is the
\* corner U+2514, "T" the tee U+251C, "-" the dash U+2500, "|" the bar
\* U+2502.
LastConnector == <<"L", "-", "-", " ">>
MidConnector == <<"T", "-", "-", " ">>
LastExt == <<" ", " ", " ", " ">>
MidExt == <<"|", " ", " ", " ">>

\* Mutant of treeWalk: takes every child for the last of its parent.
RECURSIVE treeWalkAllLast(_, _, _, _)
treeWalkAllLast(ns, parentId, prefix, idx) ==
    LET children == ns[parentId].children
    IN IF idx >= Len(children) THEN <<>>
       ELSE LET child == ns[children[idx + 1]]
            IN << prefix \o LastConnector \o child.name >>
               \o (IF child.kind = "folder"
                   THEN treeWalkAllLast(ns, child.id, prefix \o LastExt, 0) ELSE <<>>)
               \o treeWalkAllLast(ns, parentId, prefix, idx + 1)

\* walk(parentId, prefix) of unicodeTree, its forEach from index idx on: the
\* lines it pushes (only where the walk ends and meets no missing node).
RECURSIVE treeWalk(_, _, _, _)
treeWalk(ns, parentId, prefix, idx) ==
    LET children == ns[parentId].children
    IN IF idx >= Len(children) THEN <<>>
       ELSE LET child == ns[children[idx + 1]]
                isLast == idx = Len(children) - 1
                connector == IF isLast THEN LastConnector ELSE MidConnector
                ext == IF isLast THEN LastExt ELSE MidExt
            IN << prefix \o connector \o child.name >>
               \o (IF child.kind = "folder"
                   THEN treeWalk(ns, child.id, prefix \o ext, 0) ELSE <<>>)
               \o treeWalk(ns, parentId, prefix, idx + 1)

unicodeTree(ns, rootId) ==
    join(<< ns[rootId].name >> \o treeWalk(ns, rootId, <<>>, 0))

\* Mutant of safe: String.prototype.replace, which replaces the first quote.
safeFirstOnly(str) ==
    [i \in 1..Len(str) |->
        IF str[i] = Quote /\ (\A j \in 1..(i - 1) : str[j] # Quote) THEN "'" ELSE str[i]]

\* safe of mermaid: String(s).replaceAll('"', "'")
safe(str) == [i \in 1..Len(str) |-> IF str[i] = Quote THEN "'" ELSE str[i]]

\* The characters of an id: those of "root"; an id drawn by uid() is a
\* string of hex digits, kept as one symbol.
chars(id) == IF id = ROOT_ID THEN <<"r", "o", "o", "t">> ELSE <<id>>

\* idMap[id] of mermaid: `n_${id.replaceAll("-", "_")}`; of an id that is
\* no key of the store, the text "undefined".
idMap(ns, id) ==
    IF ~Has(ns, id) THEN <<"undefined">>
    ELSE <<"n", "_">> \o [i \in 1..Len(chars(id)) |->
                             IF chars(id)[i] = "-" THEN "_" ELSE chars(id)[i]]

\* The glyphs of the labels, one symbol each: U+1F4C1 and U+1F4C4.
FolderGlyph == "FOLDER"
FileGlyph == "PAGE"

\* `  ${mid}["${glyph} ${label}"]`
declaration(ns, n) ==
    <<" ", " ">> \o idMap(ns, n.id)
    \o <<"[", Quote, IF n.kind = "folder" THEN FolderGlyph ELSE FileGlyph, " ">>
    \o safe(n.name) \o <<Quote, "]">>

\* `  ${idMap[n.parent]} --> ${idMap[n.id]}`
edge(ns, n) ==
    <<" ", " ">> \o idMap(ns, n.parent) \o <<" ", "-", "-", ">", " ">> \o idMap(ns, n.id)

\* The lines of mermaid(nodes, rootId), Object.values(nodes) in the order
\* of keysOf.
mermaidLines(ns, rootId) ==
    LET ks == keysOf(DOMAIN ns)
        withParent == SelectSeq(ks, LAMBDA id : ns[id].parent # Null)
    IN << <<"flowchart", " ", "TD">> >>
       \o [i \in 1..Len(ks) |-> declaration(ns, ns[ks[i]])]
       \o [i \in 1..Len(withParent) |-> edge(ns, ns[withParent[i]])]

mermaid(ns, rootId) == join(mermaidLines(ns, rootId))

(* ------------------------------- render ------------------------------- *)
\* unicodeTree / markdownTree / <Tree>: the walk from the root reads
\* nodes[cid].name of every listed child and recurses into folders.
treeWalkThrows(ns) ==
    \/ ~Has(ns, ROOT_ID)
    \/ \E x \in Below(ns, ROOT_ID) : ~Has(ns, x)
    \/ walkLoops(ns, ROOT_ID)

\* moveTargets: isDescendant(nodes, f.id, selectedId) for every folder f
moveTargetsLoops(ns, sel) ==
    /\ sel # Null /\ Has(ns, sel) /\ ns[sel].kind # "file"
    /\ \E f \in DOMAIN ns :
          ns[f].kind = "folder" /\ f # sel /\ isDescendantLoops(ns, f, sel)

\* What rendering App with this state ends in.
render(ns, sel) ==
    IF treeWalkThrows(ns) THEN "crashed"
    ELSE IF moveTargetsLoops(ns, sel) THEN "hung"
    ELSE IF sel # Null /\ ~Has(ns, sel) THEN "crashed"
    ELSE "ok"

(* ------------------------------ handlers ------------------------------ *)
NoCall == [op |-> "none", a |-> Null, b |-> Null, mode |-> Null,
           kind |-> Null, name |-> <<>>, shift |-> FALSE, text |-> <<>>,
           order |-> <<>>, addParent |-> Null, search |-> <<>>,
           heap |-> FALSE, given |-> defaultState]

\* No call has been recorded yet.
building == last = NoCall

\* The effect "Keep addParent valid", run after the render of the store ns.
keepAddParent(ns, ap) == IF IsFolder(ns, ap) THEN ap ELSE ROOT_ID

\* A handler's state updates, then the render they cause and its effect.
commit(ns, sel) ==
    /\ nodes' = ns
    /\ selectedId' = sel
    /\ ui' = render(ns, sel)
    /\ addParent' = keepAddParent(ns, addParent)
    /\ prev' = defaultState
    /\ last' = NoCall
    /\ UNCHANGED <<search, timers>>

\* setNodes(ns); setSelectedId(null); setRenameValue(""); setAddParent(ROOT_ID);
\* setSearch(""): what applyTemplate, the import and Reset end with.
resetTo(ns) ==
    /\ nodes' = ns
    /\ selectedId' = Null
    /\ ui' = render(ns, Null)
    /\ addParent' = ROOT_ID
    /\ search' = <<>>
    /\ prev' = defaultState
    /\ last' = NoCall
    /\ UNCHANGED timers

\* A handler (or the updater it queued) runs into a loop that never ends.
hang ==
    /\ ui' = "hung"
    /\ prev' = defaultState
    /\ last' = NoCall
    /\ UNCHANGED <<nodes, selectedId, nextId, drawn, addParent, search, timers>>

onSelect(id) ==
    /\ ui = "ok"
    /\ Has(nodes, id)
    /\ commit(nodes, id)
    /\ UNCHANGED <<nextId, drawn>>

toggleFolderStore(ns, id) ==
    IF IsFolder(ns, id) THEN [ns EXCEPT ![id].isOpen = ~@] ELSE ns

toggleFolder(id) ==
    /\ ui = "ok"
    /\ commit(toggleFolderStore(nodes, id), selectedId)
    /\ UNCHANGED <<nextId, drawn>>

\* Mutant of addItemStore: leaves the parent's isOpen as it was.
addItemStoreKeepsClosed(ns, kind, nm, parentId, id) ==
    LET pid == IF parentId = Null THEN ROOT_ID ELSE parentId
    IN IF ~IsFolder(ns, pid) THEN ns
       ELSE [((id :> (IF kind = "folder" THEN folderNode(id, nm, pid)
                      ELSE fileNode(id, nm, pid))) @@ ns)
               EXCEPT ![pid].children = Append(@, id)]

\* The updater of addItem for a trimmed, non-empty name nm and the new id.
addItemStore(ns, kind, nm, parentId, id) ==
    LET pid == IF parentId = Null THEN ROOT_ID ELSE parentId
    IN IF ~IsFolder(ns, pid) THEN ns
       ELSE [((id :> (IF kind = "folder" THEN folderNode(id, nm, pid)
                      ELSE fileNode(id, nm, pid))) @@ ns)
               EXCEPT ![pid].children = Append(@, id), ![pid].isOpen = TRUE]

addItem(kind, name, parentId) ==
    /\ ui = "ok"
    /\ IF \/ trim(name) = <<>>
          \/ ~IsFolder(nodes, IF parentId = Null THEN ROOT_ID ELSE parentId)
       THEN commit(nodes, selectedId) /\ UNCHANGED <<nextId, drawn>>
       ELSE /\ nextId <= MaxIds
            /\ commit(addItemStore(nodes, kind, trim(name), parentId, uid(nextId)),
                      selectedId)
            /\ nextId' = nextId + 1
            /\ drawn' = Append(drawn, uid(nextId))

deleteTarget(id) ==
    /\ ui = "ok"
    /\ IF walkLoops(nodes, id) THEN hang
       ELSE /\ commit(removeSubtree(nodes, id),
                      IF selectedId = id THEN Null ELSE selectedId)
            /\ UNCHANGED <<nextId, drawn>>

saveRenameStore(ns, sel, nm) ==
    IF ~Has(ns, sel) THEN ns ELSE [ns EXCEPT ![sel].name = nm]

saveRename(renameValue) ==
    /\ ui = "ok"
    /\ IF selectedId = Null \/ trim(renameValue) = <<>>
       THEN commit(nodes, selectedId)
       ELSE commit(saveRenameStore(nodes, selectedId, trim(renameValue)), selectedId)
    /\ UNCHANGED <<nextId, drawn>>

\* The root name input's onChange
rootNameInput(value) ==
    /\ ui = "ok"
    /\ commit([nodes EXCEPT ![ROOT_ID].name = value], selectedId)
    /\ UNCHANGED <<nextId, drawn>>

\* Mutant of moveSelectedStore: takes sel out of its old parent by putting
\* the last child in its place.
moveSelectedStoreSwapRemove(ns, sel, parentId) ==
    LET oldParentId == ns[sel].parent
        old  == ns[oldParentId].children
        at   == indexOf(old, sel) + 1
        copy == IF oldParentId # Null /\ IsFolder(ns, oldParentId)
                THEN [ns EXCEPT ![oldParentId].children =
                         IF at = Len(old) THEN SubSeq(old, 1, Len(old) - 1)
                         ELSE SubSeq([old EXCEPT ![at] = old[Len(old)]], 1, Len(old) - 1)]
                ELSE ns
    IN [copy EXCEPT ![sel].parent = parentId,
                    ![parentId].children = Append(@, sel),
                    ![parentId].isOpen = TRUE]

\* The updater of moveSelectedTo
moveSelectedStore(ns, sel, parentId) ==
    LET oldParentId == ns[sel].parent
        copy == IF oldParentId # Null /\ IsFolder(ns, oldParentId)
                THEN [ns EXCEPT ![oldParentId].children = filterOut(@, sel)]
                ELSE ns
    IN [copy EXCEPT ![sel].parent = parentId,
                    ![parentId].children = Append(@, sel),
                    ![parentId].isOpen = TRUE]

moveSelectedTo(parentId) ==
    /\ ui = "ok"
    /\ IF \/ selectedId = Null
          \/ ~IsFolder(nodes, parentId)
          \/ ~Has(nodes, selectedId)
          \/ (nodes[selectedId].kind = "folder" /\ parentId = selectedId)
       THEN commit(nodes, selectedId) /\ UNCHANGED <<nextId, drawn>>
       ELSE IF nodes[selectedId].kind = "folder"
               /\ isDescendantLoops(nodes, parentId, selectedId)
       THEN hang
       ELSE IF nodes[selectedId].kind = "folder"
               /\ isDescendant(nodes, parentId, selectedId)
       THEN commit(nodes, selectedId) /\ UNCHANGED <<nextId, drawn>>
       ELSE /\ commit(moveSelectedStore(nodes, selectedId, parentId), selectedId)
            /\ UNCHANGED <<nextId, drawn>>

\* The store moveSelectedTo(parentId) leaves with sel selected (when its
\* walk ends; with a selected id that is no node the handler throws on
\* sel.kind before it queues anything).
moveSelectedResult(ns, sel, parentId) ==
    IF \/ sel = Null
       \/ ~IsFolder(ns, parentId)
       \/ ~Has(ns, sel)
    THEN ns
    ELSE IF ns[sel].kind = "folder"
            /\ (parentId = sel \/ isDescendant(ns, parentId, sel))
    THEN ns
    ELSE moveSelectedStore(ns, sel, parentId)

\* The template as far as the ids left reach (all of it when they suffice).
templateWithin(key, k) ==
    [TEMPLATES[key] EXCEPT !.children = firstNodes(@, k)]

applyTemplate(key) ==
    /\ ui = "ok"
    /\ LET t == templateWithin(key, MaxIds + 1 - nextId)
       IN /\ resetTo(buildFromNested(t, nextId))
          /\ nextId' = nextId + nestedSize(t.children)
          /\ drawn' = drawn \o SubSeq(IdPool, nextId, nextId + nestedSize(t.children) - 1)

\* Mutant of siblingDrop: places activeId behind overId.
siblingDropBehind(ns, activeId, overId) ==
    LET aParent == IF ns[activeId].parent # Null THEN ns[activeId].parent ELSE ROOT_ID
        oParent == IF ns[overId].parent # Null THEN ns[overId].parent ELSE ROOT_ID
    IN IF ~IsFolder(ns, aParent) \/ ~IsFolder(ns, oParent) THEN ns
       ELSE IF ns[activeId].kind = "folder" /\ isDescendant(ns, oParent, activeId) THEN ns
       ELSE LET c1 == [ns EXCEPT ![aParent].children = filterOut(@, activeId)]
                c2 == [c1 EXCEPT ![activeId].parent = oParent]
            IN [c2 EXCEPT ![oParent].children =
                             spliceIn(@, indexOf(@, overId) + 1, activeId),
                          ![oParent].isOpen = TRUE]

\* The updater of onDragEnd's sibling path
siblingDrop(ns, activeId, overId) ==
    LET aParent == IF ns[activeId].parent # Null THEN ns[activeId].parent ELSE ROOT_ID
        oParent == IF ns[overId].parent # Null THEN ns[overId].parent ELSE ROOT_ID
    IN IF ~IsFolder(ns, aParent) \/ ~IsFolder(ns, oParent) THEN ns
       ELSE IF ns[activeId].kind = "folder" /\ isDescendant(ns, oParent, activeId) THEN ns
       ELSE LET c1 == [ns EXCEPT ![aParent].children = filterOut(@, activeId)]
                idx == indexOf(c1[oParent].children, overId)
                insertAt == IF idx < 0 THEN 0 ELSE idx
                c2 == [c1 EXCEPT ![activeId].parent = oParent]
                c3 == [c2 EXCEPT ![oParent].children = spliceIn(@, insertAt, activeId),
                                 ![oParent].isOpen = TRUE]
            IN IF aParent = oParent
               THEN [c3 EXCEPT ![oParent].children =
                        arrayMove(@, indexOf(@, activeId), insertAt)]
               ELSE c3

siblingDropLoops(ns, activeId, overId) ==
    LET aParent == IF ns[activeId].parent # Null THEN ns[activeId].parent ELSE ROOT_ID
        oParent == IF ns[overId].parent # Null THEN ns[overId].parent ELSE ROOT_ID
    IN /\ IsFolder(ns, aParent) /\ IsFolder(ns, oParent)
       /\ ns[activeId].kind = "folder"
       /\ isDescendantLoops(ns, oParent, activeId)

\* Mutant of onDragEndStore: without the activeId === overId return.
onDragEndStoreNoSameIdReturn(ns, activeId, overId, shift) ==
    IF \/ activeId = Null \/ overId = Null
       \/ ~Has(ns, activeId) \/ ~Has(ns, overId)
    THEN ns
    ELSE IF ns[overId].kind = "folder" /\ ~shift
    THEN moveNode(ns, activeId, overId, "into")
    ELSE siblingDrop(ns, activeId, overId)

\* The store onDragEnd leaves (when none of its walks loops); shift is
\* window.__folderviz_shiftKeyDown === true when the drop lands.
onDragEndStore(ns, activeId, overId, shift) ==
    IF \/ activeId = Null \/ overId = Null
       \/ activeId = overId
       \/ ~Has(ns, activeId) \/ ~Has(ns, overId)
    THEN ns
    ELSE IF ns[overId].kind = "folder" /\ ~shift
    THEN moveNode(ns, activeId, overId, "into")
    ELSE siblingDrop(ns, activeId, overId)

onDragEndLoops(ns, activeId, overId, shift) ==
    /\ activeId # Null /\ overId # Null
    /\ activeId # overId
    /\ Has(ns, activeId) /\ Has(ns, overId)
    /\ IF ns[overId].kind = "folder" /\ ~shift
       THEN moveNodeLoops(ns, activeId, overId, "into")
       ELSE siblingDropLoops(ns, activeId, overId)

onDragEnd(activeId, overId, shift) ==
    /\ ui = "ok"
    /\ IF onDragEndLoops(nodes, activeId, overId, shift) THEN hang
       ELSE /\ commit(onDragEndStore(nodes, activeId, overId, shift), selectedId)
            /\ UNCHANGED <<nextId, drawn>>

(* ------------------------- what the page shows ------------------------ *)
\* The rows <Tree> renders: the children of the root and of every open
\* folder that is itself rendered.  Only these register with dnd-kit (the
\* root header does not), carry a context menu with Delete, and take clicks.
RECURSIVE rowsBelow(_, _, _)
rowsBelow(ns, frontier, acc) ==
    IF frontier \subseteq acc THEN acc
    ELSE rowsBelow(ns,
                   UNION {IF IsFolder(ns, x) /\ ns[x].isOpen THEN Kids(ns, x) ELSE {}
                          : x \in frontier \ acc},
                   acc \cup frontier)

Rows(ns) == IF ns[ROOT_ID].isOpen THEN rowsBelow(ns, Kids(ns, ROOT_ID), {}) ELSE {}

(* ---------------------------- specification --------------------------- *)
Init ==
    /\ nodes = defaultState
    /\ selectedId = Null
    /\ nextId = 1
    /\ drawn = <<>>
    /\ addParent = ROOT_ID
    /\ search = <<>>
    /\ timers = {}
    /\ ui = "ok"
    /\ prev = defaultState
    /\ last = NoCall

\* The handlers, given any ids: ids of the store, absent ids and none.
Next ==
    \/ \E id \in Ids : onSelect(id)
    \/ \E id \in Ids : toggleFolder(id)
    \/ \E kind \in Kinds, name \in RawNames, parentId \in Ids \cup {Null} :
          addItem(kind, name, parentId)
    \/ \E id \in Ids : deleteTarget(id)
    \/ \E value \in RawNames : saveRename(value)
    \/ \E value \in RawNames : rootNameInput(value)
    \/ \E parentId \in Ids : moveSelectedTo(parentId)
    \/ \E key \in DOMAIN TEMPLATES : applyTemplate(key)
    \/ \E activeId \in Ids \cup {Null}, overId \in Ids \cup {Null}, shift \in BOOLEAN :
          onDragEnd(activeId, overId, shift)

Spec == Init /\ [][Next]_vars

\* The handlers as the rendered page calls them: a drag starts on a row and
\* ends over a row or over nothing; Delete is offered for the selected item
\* and in the context menu of a row; the root is selected through the
\* context menu's Rename, any other node by a click or by Jump; the parent
\* dropdowns list the folders of the store.
NextUI ==
    \/ \E id \in Ids : onSelect(id)
    \/ \E id \in Rows(nodes) \cup {ROOT_ID} : IsFolder(nodes, id) /\ toggleFolder(id)
    \/ \E kind \in Kinds, name \in RawNames, parentId \in Ids :
          IsFolder(nodes, parentId) /\ addItem(kind, name, parentId)
    \/ \E id \in Rows(nodes) \cup {selectedId} : deleteTarget(id)
    \/ \E value \in RawNames : saveRename(value)
    \/ \E value \in RawNames : rootNameInput(value)
    \/ \E parentId \in Ids : IsFolder(nodes, parentId) /\ moveSelectedTo(parentId)
    \/ \E key \in DOMAIN TEMPLATES : applyTemplate(key)
    \/ \E activeId \in Rows(nodes), overId \in Rows(nodes) \cup {Null}, shift \in BOOLEAN :
          onDragEnd(activeId, overId, shift)

SpecUI == Init /\ [][NextUI]_vars

(* ------------------------------- import -------------------------------- *)
\* Mutant of afterImport: resets the value whatever the branch.
afterImportResets(branch, reset, kept) == reset

\* What a state of the form is after reader.onload: the two accepting
\* branches reset it, the alerts leave it as it was.
afterImport(branch, reset, kept) ==
    IF branch \in {"flat", "nested"} THEN reset ELSE kept

\* importJsonFile, reader.onload having read text.  The store and the
\* selection it found, the text and the branch taken are kept in prev and
\* last.
importJsonFile(text) ==
    /\ ui = "ok"
    /\ LET data == JSONparse(text).v
           built == buildFromNested(nestedOf(data), nextId)
           branch == IF importBranch(text) = "nested" /\ threw(built)
                     THEN "threw"                \* caught: alert
                     ELSE importBranch(text)
           size == IF importBranch(text) = "nested"
                   THEN uidCalls(childrenOr(nestedOf(data))).n ELSE 0
           store == CASE branch = "flat"   -> storeOf(field(data, "nodes"))
                      [] branch = "nested" -> built
                      [] OTHER             -> nodes
       IN /\ nextId + size <= MaxIds + 1
          /\ nodes' = store
          /\ selectedId' = afterImport(branch, Null, selectedId)
          /\ addParent' = afterImport(branch, ROOT_ID, addParent)
          /\ search' = afterImport(branch, <<>>, search)
          /\ UNCHANGED timers
          /\ ui' = render(store, selectedId')
          /\ nextId' = nextId + size
          /\ drawn' = drawn \o SubSeq(IdPool, nextId, nextId + size - 1)
          /\ prev' = nodes
          /\ last' = [NoCall EXCEPT !.op = "import", !.mode = branch, !.text = text,
                                    !.a = selectedId, !.addParent = addParent,
                                    !.search = search]

\* What the name inputs may hold in a session that ends with an import.
ImportNames == {<<>>, <<Quote, " ", Backslash>>}

\* The root ids a flat file may declare: the root's, another node's, one no
\* store holds, and the empty string.
FileRootIds == {<<ROOT_ID>>, <<IdPool[1]>>, <<"zz">>, <<>>}

\* The node mappings a flat file may hold: the store, and the store without
\* its root.
FileStores(ns) == {ns, [id \in (DOMAIN ns) \ {ROOT_ID} |-> ns[id]]}

\* The files the user may pick: flat files, the text "null", and a text
\* that is cut off.
Files(ns) ==
    {flatText(rootId, store) : rootId \in FileRootIds, store \in FileStores(ns)}
    \cup {<<"null">>, <<"{", Quote, "nodes">>}

\* A session of selecting, toggling, adding and naming that ends with the
\* import of a file.
NextImport ==
    \/ \E id \in Ids : building /\ onSelect(id)
    \/ \E id \in Ids : building /\ IsFolder(nodes, id) /\ toggleFolder(id)
    \/ \E kind \in Kinds, name \in ImportNames, parentId \in Ids :
          building /\ IsFolder(nodes, parentId) /\ addItem(kind, name, parentId)
    \/ \E value \in ImportNames : building /\ rootNameInput(value)
    \/ \E text \in Files(nodes) : building /\ importJsonFile(text)

SpecImport == Init /\ [][NextImport]_vars

\* The add form's parent dropdown: onChange={(e) => setAddParent(e.target.value)}
setAddParent(value) ==
    /\ ui = "ok"
    /\ addParent' = value
    /\ prev' = defaultState
    /\ last' = NoCall
    /\ UNCHANGED <<nodes, selectedId, nextId, drawn, search, timers, ui>>

\* The search input: onChange={(e) => setSearch(e.target.value)}
setSearch(value) ==
    /\ ui = "ok"
    /\ search' = value
    /\ prev' = defaultState
    /\ last' = NoCall
    /\ UNCHANGED <<nodes, selectedId, nextId, drawn, addParent, timers, ui>>

\* What the search input may hold.
SearchTexts == {<<>>, <<"A", " ">>}

\* A JSON object with one member.
JObj1(key, val) == JObj(<< <<key>> >>, << val >>)

\* The values a picked file may hold besides a flat store: no object at
\* all, an object whose kind is "file", and nested descriptions whose
\* children field or child entries are not what the nested form asks for.
FormatValues ==
    { JNull, JBool(FALSE), JStr(<<>>), JNum(0),
      JNum(7), JStr(<<"x">>), JArr(<< JObj1("name", JStr(<<"x">>)) >>),
      JObj1("kind", JStr(<<"file">>)),
      JObj1("name", JStr(<<"x">>)),
      JObj1("children", JStr(<<"x">>)),
      JObj1("children", JStr(<<>>)),
      JObj1("children", JNum(7)),
      JObj1("children", JNum(0)),
      JObj1("children", JObj1("name", JStr(<<"x">>))),
      JObj1("children", JArr(<< JNull >>)),
      JObj1("children", JArr(<< JStr(<<"x">>) >>)),
      JObj1("children", JArr(<< JNum(7), JObj(<<>>, <<>>) >>)),
      JObj1("children", JArr(<< JObj1("kind", JStr(<<"file">>)) >>)),
      JObj1("children", JArr(<< JObj1("children", JNum(7)) >>)),
      JObj1("children", JArr(<< JObj1("children", JArr(<< JNull >>)) >>)),
      JObj(<< <<"kind">>, <<"name">>, <<"children">> >>,
           << JStr(<<"folder">>), JStr(<<>>),
              JArr(<< JObj(<< <<"name">>, <<"children">> >>,
                           << JStr(<<"x">>),
                              JArr(<< JObj1("kind", JStr(<<"file">>)) >>) >>) >>) >>) }

\* The files the user may pick: the texts of these values, and texts that
\* are no JSON.
FormatFiles ==
    {stringify(v) : v \in FormatValues}
    \cup {<<>>, <<"{", Quote, "nodes">>, <<"[", "7", ",", "]">>}

\* A session of selecting, adding and filling in the form that ends with
\* the import of a file that is no flat store.
NextFormat ==
    \/ \E id \in Ids : building /\ onSelect(id)
    \/ \E kind \in Kinds, parentId \in Ids :
          building /\ IsFolder(nodes, parentId) /\ addItem(kind, <<"a">>, parentId)
    \/ \E value \in Ids : building /\ IsFolder(nodes, value) /\ setAddParent(value)
    \/ \E value \in SearchTexts : building /\ setSearch(value)
    \/ \E text \in FormatFiles : building /\ importJsonFile(text)

SpecFormat == Init /\ [][NextFormat]_vars

(* ------------------ sessions in which uid() may repeat ---------------- *)
\* What a call of uid() may return: a string of hex digits, whatever the
\* calls before it returned.
Draws == Ids \ {ROOT_ID}

\* A render-phase updater threw: React unmounts the tree.
crash ==
    /\ ui' = "crashed"
    /\ prev' = defaultState
    /\ last' = NoCall
    /\ UNCHANGED <<nodes, selectedId, addParent, search, timers>>

\* addItem(kind, name, parentId), its call of uid() returning id.
addItemDraw(kind, name, parentId, id) ==
    /\ ui = "ok"
    /\ IF \/ trim(name) = <<>>
          \/ ~IsFolder(nodes, IF parentId = Null THEN ROOT_ID ELSE parentId)
       THEN commit(nodes, selectedId) /\ UNCHANGED <<nextId, drawn>>
       ELSE /\ nextId <= MaxDraws
            /\ nextId' = nextId + 1
            /\ drawn' = Append(drawn, id)
            /\ IF kind = "file" /\ id = (IF parentId = Null THEN ROOT_ID ELSE parentId)
               THEN crash  \* copy[pid] is the new file: copy[pid].children.push throws
               ELSE commit(addItemStore(nodes, kind, trim(name), parentId, id), selectedId)

\* applyTemplate(key), the calls of uid() returning draws[1], draws[2], ...;
\* of the template, what MaxDraws leaves room for.  (When buildFromNested
\* throws, the handler ends there and the state is as it was.)
applyTemplateDraw(key, draws) ==
    /\ ui = "ok"
    /\ LET t == templateWithin(key, MaxDraws + 1 - nextId)
           k == nestedSize(t.children)
           built == buildFromNestedWith(t, draws, 1)
       IN /\ ~threw(built)
          /\ resetTo(built)
          /\ nextId' = nextId + k
          /\ drawn' = drawn \o SubSeq(draws, 1, k)

NextUid ==
    \/ \E id \in Ids : toggleFolder(id)
    \/ \E kind \in Kinds, parentId \in Ids, id \in Draws :
          addItemDraw(kind, <<"a">>, parentId, id)
    \/ \E id \in Ids : deleteTarget(id)
    \/ \E key \in DOMAIN TEMPLATES, draws \in [1..(MaxDraws + 1 - nextId) -> Draws] :
          applyTemplateDraw(key, draws)

SpecUid == Init /\ [][NextUid]_vars

(* --------------------- calls of the pure mutators --------------------- *)
\* A store is built by the updaters of addItem and toggleFolder; then one
\* pure mutator is called on it, and the store it was given (prev), the call
\* (last) and the store it returned (nodes) are kept.
\* What a name input may hold when a handler's call is recorded.
CallNames == RawNames \cup {<<" ">>, <<"b">>}

buildAdd(kind, parentId) ==
    /\ building
    /\ nextId <= MaxCallIds
    /\ IsFolder(nodes, parentId)
    /\ nodes' = addItemStore(nodes, kind, <<"a">>, parentId, uid(nextId))
    /\ nextId' = nextId + 1
    /\ drawn' = Append(drawn, uid(nextId))
    /\ UNCHANGED <<selectedId, addParent, search, timers, ui, prev, last>>

buildToggle(id) ==
    /\ building
    /\ IsFolder(nodes, id)
    /\ nodes' = toggleFolderStore(nodes, id)
    /\ UNCHANGED <<selectedId, nextId, drawn, addParent, search, timers, ui, prev, last>>

called(op, a, b, mode, result) ==
    /\ building
    /\ nodes' = result
    /\ prev' = nodes
    /\ last' = [NoCall EXCEPT !.op = op, !.a = a, !.b = b, !.mode = mode]
    /\ UNCHANGED <<selectedId, nextId, drawn, addParent, search, timers, ui>>

callRemoveSubtree(nodeId) ==
    /\ ~walkLoops(nodes, nodeId)
    /\ called("removeSubtree", nodeId, Null, Null, removeSubtree(nodes, nodeId))

callMoveNode(activeId, overId, mode) ==
    /\ ~moveNodeLoops(nodes, activeId, overId, mode)
    /\ called("moveNode", activeId, overId, mode, moveNode(nodes, activeId, overId, mode))

\* The updater onDragEnd queues on its sibling path, for two distinct nodes
\* of the store (NextCall hands it a dragged row, never the root header).
callSiblingDrop(activeId, overId) ==
    /\ Has(nodes, activeId) /\ Has(nodes, overId) /\ activeId # overId
    /\ ~siblingDropLoops(nodes, activeId, overId)
    /\ called("siblingDrop", activeId, overId, Null, siblingDrop(nodes, activeId, overId))

\* addItem(kind, name, parentId): nothing when the trimmed name is empty,
\* else its updater with the next id of uid().
callAddItem(kind, name, parentId) ==
    /\ building
    /\ nodes' = IF trim(name) = <<>> THEN nodes
                ELSE addItemStore(nodes, kind, trim(name), parentId, uid(nextId))
    /\ nextId' = IF nodes' = nodes THEN nextId ELSE nextId + 1
    /\ drawn' = IF nodes' = nodes THEN drawn ELSE Append(drawn, uid(nextId))
    /\ prev' = nodes
    /\ last' = [NoCall EXCEPT !.op = "addItem", !.a = parentId,
                              !.kind = kind, !.name = name]
    /\ UNCHANGED <<selectedId, addParent, search, timers, ui>>

\* onSelect(id) as the last step before a call of saveRename: the id of a
\* node, or of one the store does not (or no longer) hold.
buildSelect(id) ==
    /\ building
    /\ selectedId = Null
    /\ selectedId' = id
    /\ UNCHANGED <<nodes, nextId, drawn, addParent, search, timers, ui, prev, last>>

\* saveRename() with renameValue = value and the selection made before.
callSaveRename(value) ==
    /\ building
    /\ nodes' = IF selectedId = Null \/ trim(value) = <<>> THEN nodes
                ELSE saveRenameStore(nodes, selectedId, trim(value))
    /\ prev' = nodes
    /\ last' = [NoCall EXCEPT !.op = "saveRename", !.a = selectedId, !.name = value]
    /\ UNCHANGED <<selectedId, nextId, drawn, addParent, search, timers, ui>>

\* onDragEnd({active, over}) with the Shift state shift.
callOnDragEnd(activeId, overId, shift) ==
    /\ building
    /\ ~onDragEndLoops(nodes, activeId, overId, shift)
    /\ nodes' = onDragEndStore(nodes, activeId, overId, shift)
    /\ prev' = nodes
    /\ last' = [NoCall EXCEPT !.op = "onDragEnd", !.a = activeId, !.b = overId,
                              !.shift = shift]
    /\ UNCHANGED <<selectedId, nextId, drawn, addParent, search, timers, ui>>

\* toggleFolder(id): its updater.
callToggleFolder(id) ==
    called("toggleFolder", id, Null, Null, toggleFolderStore(nodes, id))

\* moveSelectedTo(parentId) with the selection made before.
callMoveSelectedTo(parentId) ==
    /\ ~(IsFolder(nodes, selectedId) /\ isDescendantLoops(nodes, parentId, selectedId))
    /\ called("moveSelectedTo", selectedId, parentId, Null,
              moveSelectedResult(nodes, selectedId, parentId))

\* The arrangements of the elements of arr.
Perms(arr) ==
    {[i \in 1..Len(arr) |-> arr[q[i]]] :
        q \in {q \in [1..Len(arr) -> 1..Len(arr)] :
                  \A i, j \in 1..Len(arr) : i # j => q[i] # q[j]}}

\* The orders setChildrenOrder is handed for parentId: every arrangement of
\* its children, and orders that are none (too short, an id twice, an id
\* that is no node).
Orders(ns, parentId) ==
    Perms(IF IsFolder(ns, parentId) THEN ns[parentId].children ELSE <<>>)
    \cup {<<>>, <<IdPool[1], IdPool[1]>>, <<"zz">>}

\* setChildrenOrder(nodes, parentId, newOrder); mode "threw" when it throws.
callSetChildrenOrder(parentId, newOrder) ==
    /\ building
    /\ nodes' = IF setChildrenOrderThrows(nodes, parentId) THEN nodes
                ELSE setChildrenOrder(nodes, parentId, newOrder)
    /\ prev' = nodes
    /\ last' = [NoCall EXCEPT !.op = "setChildrenOrder", !.a = parentId,
                              !.order = newOrder,
                              !.mode = IF setChildrenOrderThrows(nodes, parentId)
                                       THEN "threw" ELSE Null]
    /\ UNCHANGED <<selectedId, nextId, drawn, addParent, search, timers, ui>>

NextCall ==
    \/ \E kind \in Kinds, parentId \in CallIds :
          selectedId = Null /\ buildAdd(kind, parentId)
    \/ \E id \in CallIds : selectedId = Null /\ buildToggle(id)
    \/ \E nodeId \in CallIds \cup {Null} :
          selectedId = Null /\ callRemoveSubtree(nodeId)
    \/ \E activeId \in CallIds \cup {Null}, overId \in CallIds \cup {Null}, mode \in Modes :
          selectedId = Null /\ callMoveNode(activeId, overId, mode)
    \/ \E activeId \in CallIds \ {ROOT_ID}, overId \in CallIds :
          selectedId = Null /\ callSiblingDrop(activeId, overId)
    \/ \E kind \in Kinds, name \in CallNames, parentId \in CallIds \cup {Null} :
          selectedId = Null /\ callAddItem(kind, name, parentId)
    \/ \E activeId \in CallIds \cup {Null}, overId \in CallIds \cup {Null},
          shift \in BOOLEAN :
          selectedId = Null /\ callOnDragEnd(activeId, overId, shift)
    \/ \E id \in CallIds : selectedId = Null /\ callToggleFolder(id)
    \/ \E parentId \in CallIds \cup {Null} :
          \E newOrder \in Orders(nodes, parentId) :
             selectedId = Null /\ callSetChildrenOrder(parentId, newOrder)
    \/ \E id \in CallIds : buildSelect(id)
    \/ \E value \in CallNames : callSaveRename(value)
    \/ \E parentId \in CallIds : callMoveSelectedTo(parentId)

SpecCall == Init /\ [][NextCall]_vars

(* ------------------------ search, Jump and Reset ---------------------- *)
\* String.prototype.toLowerCase, on the letters a search may hold.
toLowerCase(str) ==
    [i \in 1..Len(str) |->
        CASE str[i] = "A" -> "a" [] str[i] = "B" -> "b" [] OTHER -> str[i]]

\* str.includes(q)
includes(str, q) ==
    \E i \in 1..(Len(str) - Len(q) + 1) : SubSeq(str, i, i + Len(q) - 1) = q

\* The nodes Object.values(nodes).find(...) of jumpToFirstMatch may return:
\* which of the matching nodes comes first depends on the ids uid() drew.
matches(ns, q) ==
    {id \in DOMAIN ns : ns[id].id # ROOT_ID /\ includes(toLowerCase(ns[id].name), q)}

\* The updater of jumpToFirstMatch: the loop "ensure all ancestors are
\* opened", cur being copy[curId] (only when it ends).
RECURSIVE openAncestors(_, _)
openAncestors(ns, curId) ==
    IF ~Has(ns, curId) \/ ns[curId].parent = Null THEN ns
    ELSE LET p == ns[curId].parent
         IN openAncestors(IF IsFolder(ns, p) THEN [ns EXCEPT ![p].isOpen = TRUE] ELSE ns, p)

\* That loop never ends: the parent chain of curId runs into a cycle.
RECURSIVE openAncestorsLoops(_, _, _)
openAncestorsLoops(ns, curId, seen) ==
    IF ~Has(ns, curId) \/ ns[curId].parent = Null THEN FALSE
    ELSE IF ns[curId].parent \in seen THEN TRUE
    ELSE openAncestorsLoops(ns, ns[curId].parent, seen \cup {ns[curId].parent})

\* jumpToFirstMatch(): opens the ancestors of the match and schedules the
\* callback that will select it.
jumpToFirstMatch ==
    /\ ui = "ok"
    /\ LET q == toLowerCase(trim(search))
       IN IF q = <<>> \/ matches(nodes, q) = {}
          THEN commit(nodes, selectedId) /\ UNCHANGED <<nextId, drawn>>
          ELSE \E match \in matches(nodes, q) :
                  IF openAncestorsLoops(nodes, match, {match}) THEN hang
                  ELSE /\ nodes' = openAncestors(nodes, match)
                       /\ timers' = timers \cup {match}
                       /\ ui' = render(nodes', selectedId)
                       /\ addParent' = keepAddParent(nodes', addParent)
                       /\ prev' = defaultState
                       /\ last' = NoCall
                       /\ UNCHANGED <<selectedId, nextId, drawn, search>>

\* The callback of setTimeout(..., 80) runs: onSelect(match.id), whatever
\* the store has become since it was scheduled.
jumpTimeout(id) ==
    /\ ui = "ok"
    /\ id \in timers
    /\ timers' = timers \ {id}
    /\ selectedId' = id
    /\ ui' = render(nodes, id)
    /\ prev' = defaultState
    /\ last' = NoCall
    /\ UNCHANGED <<nodes, nextId, drawn, addParent, search>>

\* The Reset button
reset ==
    /\ ui = "ok"
    /\ resetTo(defaultState)
    /\ UNCHANGED <<nextId, drawn>>

\* The file whose import may complete in such a session: an exported
\* initial store.
JumpFiles == {exportJson(defaultState)}

\* The user events around the selection, interleaved with the callbacks of
\* Jump: select, add, Delete on a row's context menu or for the selected
\* item, Reset, a template, the completion of an import, typing a search
\* and Jump.
NextJump ==
    \/ \E id \in Ids : onSelect(id)
    \/ \E kind \in Kinds, parentId \in Ids :
          IsFolder(nodes, parentId) /\ addItem(kind, <<"a">>, parentId)
    \/ \E id \in Rows(nodes) \cup {selectedId} : deleteTarget(id)
    \/ reset
    \/ \E key \in DOMAIN TEMPLATES : applyTemplate(key)
    \/ \E text \in JumpFiles : importJsonFile(text)
    \/ \E value \in SearchTexts : setSearch(value)
    \/ jumpToFirstMatch
    \/ \E id \in Ids : jumpTimeout(id)

SpecJump == Init /\ [][NextJump]_vars

(* ----------------------- stores and their exports -------------------- *)
\* What the rename input may hold when the exports are looked at.
RenderNames == {<<Quote, "b", Quote>>}

\* A session of adding (up to MaxCallIds nodes), selecting, renaming and
\* naming the root; every render computes unicodeTree and mermaid of the
\* store (treeText, mmText).
NextRender ==
    \/ \E kind \in Kinds, parentId \in CallIds : buildAdd(kind, parentId)
    \/ \E id \in CallIds : onSelect(id)
    \/ \E value \in RenderNames : saveRename(value)
    \/ rootNameInput(<<>>)

SpecRender == Init /\ [][NextRender]_vars

(* ------------------------------ object heap ---------------------------- *)
\* The mutators once more, on objects: a heap is the sequence cells of the
\* node objects (an address is a position in it) and two store objects,
\* each a mapping from ids to addresses: given, the store the mutator is
\* handed, and copy, the one it edits.
Load(ns) ==
    LET ks == keysOf(DOMAIN ns)
    IN [cells |-> [i \in 1..Len(ks) |-> ns[ks[i]]],
        given |-> [id \in DOMAIN ns |-> indexOf(ks, id) + 1],
        copy  |-> [id \in {} |-> 0]]

\* The store a store object shows: its ids with the objects at their
\* addresses.
View(cells, map) == [id \in DOMAIN map |-> cells[map[id]]]

\* clone(obj): JSON.parse(JSON.stringify(obj))
clone(obj) == storeOf(JSONparse(stringify(storeJson(obj))).v)

\* Mutant of cloneHeap: a one-level copy ({ ...obj }), a new store object
\* that holds the node objects of the given one.
cloneHeapShallow(H) == [H EXCEPT !.copy = H.given]

\* const copy = clone(given): a new store object with a new object for
\* every node.
cloneHeap(H) ==
    LET v  == clone(View(H.cells, H.given))
        ks == keysOf(DOMAIN v)
        n  == Len(H.cells)
    IN [H EXCEPT !.cells = @ \o [i \in 1..Len(ks) |-> v[ks[i]]],
                 !.copy = [id \in DOMAIN v |-> n + indexOf(ks, id) + 1]]

\* copy[id]
at(H, id) == H.cells[H.copy[id]]

\* copy[id] is defined / is a folder
inCopy(H, id) == id \in DOMAIN H.copy
folderInCopy(H, id) == inCopy(H, id) /\ at(H, id).kind = "folder"

\* copy[id].field = value, for the fields of the record fields (a push or
\* a splice on copy[id].children is an assignment to the same object)
assign(H, id, fields) == [H EXCEPT !.cells[H.copy[id]] = fields @@ @]

\* copy[id] = node, node being a new object
create(H, id, node) ==
    [H EXCEPT !.cells = Append(@, node),
              !.copy = (id :> (Len(H.cells) + 1)) @@ @]

\* delete copy[id], for the ids of gone
deleteAll(H, gone) == [H EXCEPT !.copy = [id \in (DOMAIN @) \ gone |-> @[id]]]

\* What a mutator ends with: the heap, and which store object it returns
\* ("copy", "given"), or "threw".
Ret(H, which) == [heap |-> H, ret |-> which]

\* The mutators, H being the heap once the mutator's first statement,
\* const copy = clone(...), has run.

toggleFolderHeap(H, id) ==
    Ret(IF folderInCopy(H, id) THEN assign(H, id, [isOpen |-> ~at(H, id).isOpen]) ELSE H,
           "copy")

addItemHeap(H, kind, nm, parentId, id) ==
    LET pid == IF parentId = Null THEN ROOT_ID ELSE parentId
    IN IF ~folderInCopy(H, pid) THEN Ret(H, "given")
       ELSE LET H1 == create(H, id, IF kind = "folder" THEN folderNode(id, nm, pid)
                                    ELSE fileNode(id, nm, pid))
                H2 == assign(H1, pid, [children |-> Append(at(H1, pid).children, id)])
            IN Ret(assign(H2, pid, [isOpen |-> TRUE]), "copy")

saveRenameHeap(H, sel, nm) ==
    IF ~inCopy(H, sel) THEN Ret(H, "given")
       ELSE Ret(assign(H, sel, [name |-> nm]), "copy")

setChildrenOrderHeap(H, parentId, newOrder) ==
    IF ~inCopy(H, parentId) THEN Ret(H, "threw")
       ELSE Ret(assign(H, parentId, [children |-> newOrder]), "copy")

removeSubtreeHeap(H, nodeId) ==
    LET parentId == IF inCopy(H, nodeId) THEN at(H, nodeId).parent ELSE Null
        stack    == collectStack(View(H.cells, H.copy), <<nodeId>>, 1)
        H1       == IF parentId # Null /\ folderInCopy(H, parentId)
                    THEN assign(H, parentId,
                                [children |-> filterOut(at(H, parentId).children, nodeId)])
                    ELSE H
    IN Ret(deleteAll(H1, Range(stack) \ {ROOT_ID}), "copy")

moveNodeHeap(H, activeId, overId, mode) ==
    LET V == View(H.cells, H.copy)
    IN IF ~inCopy(H, activeId) \/ ~inCopy(H, overId) THEN Ret(H, "given")
       ELSE IF activeId = ROOT_ID \/ activeId = overId THEN Ret(H, "given")
       ELSE IF at(H, activeId).kind = "folder" /\ mode = "into"
               /\ isDescendant(V, overId, activeId) THEN Ret(H, "given")
       ELSE IF at(H, activeId).kind = "folder" /\ mode \in {"before", "after"}
               /\ isDescendant(V, at(H, overId).parent, activeId) THEN Ret(H, "given")
       ELSE LET oldParent == at(H, activeId).parent
                H1 == IF folderInCopy(H, oldParent)
                      THEN assign(H, oldParent,
                                  [children |-> filterOut(at(H, oldParent).children, activeId)])
                      ELSE H
            IN IF mode = "into"
               THEN (IF at(H1, overId).kind # "folder" THEN Ret(H1, "given")
                     ELSE LET H2 == assign(H1, activeId, [parent |-> overId])
                              H3 == assign(H2, overId,
                                           [children |-> Append(at(H2, overId).children, activeId)])
                          IN Ret(assign(H3, overId, [isOpen |-> TRUE]), "copy"))
               ELSE LET targetParentId == IF at(H1, overId).parent # Null
                                          THEN at(H1, overId).parent ELSE ROOT_ID
                    IN IF ~folderInCopy(H1, targetParentId) THEN Ret(H1, "given")
                       ELSE LET H2  == assign(H1, activeId, [parent |-> targetParentId])
                                idx == indexOf(at(H2, targetParentId).children, overId)
                                insertAt == IF mode = "before"
                                            THEN (IF idx < 0 THEN 0 ELSE idx) ELSE idx + 1
                            IN Ret(assign(H2, targetParentId,
                                          [children |-> spliceIn(at(H2, targetParentId).children,
                                                                 insertAt, activeId)]),
                                   "copy")

\* moveSelectedTo(parentId) with sel selected: its tests on the rendered
\* store, then its updater.
moveSelectedHeap(H, sel, parentId) ==
    LET ns == View(H.cells, H.given)
    IN IF moveSelectedResult(ns, sel, parentId) = ns
          /\ (sel = Null \/ ~IsFolder(ns, parentId) \/ ~Has(ns, sel)
              \/ (ns[sel].kind = "folder"
                  /\ (parentId = sel \/ isDescendant(ns, parentId, sel))))
       THEN Ret(H, "given")
       ELSE LET oldParentId == at(H, sel).parent
                H1 == IF oldParentId # Null /\ folderInCopy(H, oldParentId)
                      THEN assign(H, oldParentId,
                                  [children |-> filterOut(at(H, oldParentId).children, sel)])
                      ELSE H
                H2 == assign(H1, sel, [parent |-> parentId])
                H3 == assign(H2, parentId, [children |-> Append(at(H2, parentId).children, sel)])
            IN Ret(assign(H3, parentId, [isOpen |-> TRUE]), "copy")

\* The updater of onDragEnd's sibling path, activeNode and overNode being
\* nodes of the rendered store.
siblingDropHeap(H, activeId, overId) ==
    LET ns == View(H.cells, H.given)
        aParent == IF ns[activeId].parent # Null THEN ns[activeId].parent ELSE ROOT_ID
        oParent == IF ns[overId].parent # Null THEN ns[overId].parent ELSE ROOT_ID
    IN IF ~folderInCopy(H, aParent) \/ ~folderInCopy(H, oParent) THEN Ret(H, "given")
       ELSE IF ns[activeId].kind = "folder"
               /\ isDescendant(View(H.cells, H.copy), oParent, activeId) THEN Ret(H, "given")
       ELSE LET H1  == assign(H, aParent,
                              [children |-> filterOut(at(H, aParent).children, activeId)])
                idx == indexOf(at(H1, oParent).children, overId)
                insertAt == IF idx < 0 THEN 0 ELSE idx
                H2  == assign(H1, activeId, [parent |-> oParent])
                H3  == assign(H2, oParent,
                              [children |-> spliceIn(at(H2, oParent).children, insertAt, activeId)])
                H4  == assign(H3, oParent, [isOpen |-> TRUE])
            IN IF aParent = oParent
               THEN Ret(assign(H4, oParent,
                               [children |-> arrayMove(at(H4, oParent).children,
                                                       indexOf(at(H4, oParent).children, activeId),
                                                       insertAt)]),
                        "copy")
               ELSE Ret(H4, "copy")

\* A mutator is called on the objects of the store, r being what it ends
\* with: the store it was given
\* as it was before the call (prev), the call (last), the store it returned
\* (nodes) and the store the given object shows after the call (last.given)
\* are kept.
heapCalled(op, a, b, mode, r) ==
    /\ building
    /\ nodes' = IF r.ret = "copy" THEN View(r.heap.cells, r.heap.copy)
                ELSE View(r.heap.cells, r.heap.given)
    /\ prev' = nodes
    /\ last' = [NoCall EXCEPT !.op = op, !.a = a, !.b = b,
                              !.mode = IF r.ret = "threw" THEN "threw" ELSE mode,
                              !.heap = TRUE,
                              !.given = View(r.heap.cells, r.heap.given)]
    /\ UNCHANGED <<selectedId, nextId, drawn, addParent, search, timers, ui>>

\* A session of adding, toggling and selecting, ended by one call of a
\* mutator on the objects of the store.
NextHeap ==
    \/ \E kind \in Kinds, parentId \in Ids :
          building /\ IsFolder(nodes, parentId) /\ addItem(kind, <<"a">>, parentId)
    \/ \E id \in Ids : building /\ IsFolder(nodes, id) /\ toggleFolder(id)
    \/ \E id \in Ids : building /\ onSelect(id)
    \/ \E id \in Ids :
          heapCalled("toggleFolder", id, Null, Null, toggleFolderHeap(cloneHeap(Load(nodes)), id))
    \/ \E kind \in Kinds, parentId \in Ids \cup {Null} :
          /\ nextId <= MaxIds
          /\ heapCalled("addItem", parentId, uid(nextId), kind,
                        addItemHeap(cloneHeap(Load(nodes)), kind, <<"b">>, parentId, uid(nextId)))
    \/ heapCalled("saveRename", selectedId, Null, Null,
                  saveRenameHeap(cloneHeap(Load(nodes)), selectedId, <<"b">>))
    \/ \E parentId \in Ids :
          \E newOrder \in Orders(nodes, parentId) :
             heapCalled("setChildrenOrder", parentId, Null, Null,
                        setChildrenOrderHeap(cloneHeap(Load(nodes)), parentId, newOrder))
    \/ \E nodeId \in Ids \cup {Null} :
          heapCalled("removeSubtree", nodeId, Null, Null,
                     removeSubtreeHeap(cloneHeap(Load(nodes)), nodeId))
    \/ \E activeId \in Ids \cup {Null}, overId \in Ids \cup {Null}, mode \in Modes :
          heapCalled("moveNode", activeId, overId, mode,
                     moveNodeHeap(cloneHeap(Load(nodes)), activeId, overId, mode))
    \/ \E parentId \in Ids :
          heapCalled("moveSelectedTo", selectedId, parentId, Null,
                     moveSelectedHeap(cloneHeap(Load(nodes)), selectedId, parentId))
    \/ \E activeId \in Ids \ {ROOT_ID}, overId \in Ids :
          /\ Has(nodes, activeId) /\ Has(nodes, overId) /\ activeId # overId
          /\ heapCalled("siblingDrop", activeId, overId, Null,
                        siblingDropHeap(cloneHeap(Load(nodes)), activeId, overId))

SpecHeap == Init /\ [][NextHeap]_vars

(* ------------------------------- claims -------------------------------- *)
\* How often x occurs in arr.
Count(arr, x) == Cardinality({i \in 1..Len(arr) : arr[i] = x})

\* arr without its element at (1-based) position i.
DropAt(arr, i) == SubSeq(arr, 1, i - 1) \o SubSeq(arr, i + 1, Len(arr))

\* Parent links and children arrays agree, in both directions.
BackLinksAgree(ns) ==
    /\ \A n \in DOMAIN ns :
          ns[n].parent # Null =>
             IsFolder(ns, ns[n].parent) /\ Count(ns[ns[n].parent].children, n) = 1
    /\ \A f \in DOMAIN ns :
          IsFolder(ns, f) =>
             \A c \in Range(ns[f].children) : Has(ns, c) /\ ns[c].parent = f

\* A store as the data model describes it: a parentless folder root, every
\* other node below it, back links that agree, and no cycle.
Consistent(ns) ==
    /\ IsFolder(ns, ROOT_ID) /\ ns[ROOT_ID].parent = Null
    /\ BackLinksAgree(ns)
    /\ \A x \in DOMAIN ns : x # ROOT_ID => x \in Below(ns, ROOT_ID)
    /\ \A x \in DOMAIN ns : x \notin Below(ns, x)

\* Same node ids and the same children lists ("structurally identical").
SameStructure(a, b) ==
    /\ DOMAIN a = DOMAIN b
    /\ \A x \in DOMAIN a :
          /\ a[x].kind = b[x].kind
          /\ a[x].parent = b[x].parent
          /\ a[x].kind = "folder" => a[x].children = b[x].children

\* C1 (as claimed): Acyclicity.  In every store the handlers reach,
\* isDescendant(store, x, x) is false for every node x, and no node occurs
\* in its own transitive children set.
C1_Acyclicity ==
    \A x \in DOMAIN nodes :
        /\ parentWalk(nodes, x, x, {x}) = "false"
        /\ x \notin Below(nodes, x)

\* C2 (as claimed): Reachability.  In every store the handlers reach, every
\* non-root node is reached from the root by following children arrays.
C2_Reachability ==
    \A x \in DOMAIN nodes : x # ROOT_ID => x \in Below(nodes, ROOT_ID)

\* C3 (as claimed): Bidirectional consistency.  In every store the handlers
\* reach, a node with parent p occurs exactly once in p's children, and
\* every id c in a folder f's children is a node whose parent is f.
C3_BidirectionalConsistency == BackLinksAgree(nodes)

\* C4 (as claimed): No dangling child references.  In every store the
\* handlers reach (deleteTarget on the selected root included), every id in
\* any folder's children array is a key of the store.
C4_NoDanglingChildren ==
    \A f \in DOMAIN nodes :
        IsFolder(nodes, f) => Range(nodes[f].children) \subseteq DOMAIN nodes

\* C5 (as claimed): Root invariance.  Whatever ids the mutators and the drop
\* resolver are given, the store keeps a node "root" that is a folder and
\* has no parent.
C5_RootInvariance ==
    /\ Has(nodes, ROOT_ID)
    /\ nodes[ROOT_ID].kind = "folder"
    /\ nodes[ROOT_ID].parent = Null

\* C6 (as claimed): removeSubtree(store, rootId) is a no-op.  The store it
\* returns has the same node ids and the same children lists as its input.
C6_RemoveRootIsNoOp ==
    (last.op = "removeSubtree" /\ last.a = ROOT_ID) => SameStructure(nodes, prev)

\* C7: Deletion completeness.  On a consistent store, removeSubtree(store, F)
\* for a non-root node F removes exactly F and everything below it, takes F
\* (and nothing else) out of its former parent's children, and leaves every
\* other node as it was; the removed ids are absent afterwards.
C7_DeletionCompleteness ==
    (/\ last.op = "removeSubtree"
     /\ Has(prev, last.a) /\ last.a # ROOT_ID
     /\ Consistent(prev))
    => LET F == last.a
           p == prev[F].parent
       IN /\ DOMAIN nodes = (DOMAIN prev) \ ({F} \cup Below(prev, F))
          /\ \A x \in {F} \cup Below(prev, F) : ~Has(nodes, x)
          /\ \E i \in 1..Len(prev[p].children) :
                /\ prev[p].children[i] = F
                /\ nodes[p] = [prev[p] EXCEPT !.children = DropAt(@, i)]
          /\ \A x \in DOMAIN nodes : x # p => nodes[x] = prev[x]

\* C7 witness: a folder with two nodes below it has been removed.
C7_Witness ==
    /\ last.op = "removeSubtree"
    /\ IsFolder(prev, last.a) /\ last.a # ROOT_ID
    /\ Consistent(prev)
    /\ Cardinality(Below(prev, last.a)) >= 2
    /\ Cardinality(DOMAIN nodes) = Cardinality(DOMAIN prev) - 3

\* C8: Move cycle rejection (Into).  For a folder F and a node D anywhere
\* below it, moveNode(store, F, D, "into") returns the store it was given.
C8_IntoCycleRejected ==
    (/\ last.op = "moveNode" /\ last.mode = "into"
     /\ IsFolder(prev, last.a)
     /\ last.b \in Below(prev, last.a))
    => nodes = prev

\* C8 witness: a folder was moved "into" a folder two levels below it.
C8_Witness ==
    /\ last.op = "moveNode" /\ last.mode = "into"
    /\ IsFolder(prev, last.a) /\ last.a # ROOT_ID
    /\ IsFolder(prev, last.b)
    /\ last.b \in Below(prev, last.a)
    /\ prev[last.b].parent # last.a
    /\ nodes = prev

C10_MoveRejections ==
    (/\ last.op = "moveNode"
     /\ \/ last.a = ROOT_ID
        \/ last.a = last.b
        \/ ~Has(prev, last.a)
        \/ ~Has(prev, last.b)
        \/ (last.mode = "into" /\ prev[last.b].kind # "folder"))
    => nodes = prev

\* C10 witness: a node that has a parent to be unlinked from was moved
\* "into" a file, and the store came back as it was.
C10_Witness ==
    /\ last.op = "moveNode" /\ last.mode = "into"
    /\ Has(prev, last.a) /\ last.a # ROOT_ID
    /\ Has(prev, last.b) /\ last.a # last.b
    /\ prev[last.b].kind = "file"
    /\ ~isDescendant(prev, last.b, last.a)
    /\ nodes = prev

\* The call moveNode(prev, a, b, mode) passed every rejection of moveNode.
moveAccepted(ns, a, b, mode) ==
    /\ Has(ns, a) /\ Has(ns, b)
    /\ a # ROOT_ID /\ a # b
    /\ ~(ns[a].kind = "folder" /\ mode = "into" /\ isDescendant(ns, b, a))
    /\ ~(ns[a].kind = "folder" /\ mode # "into" /\ isDescendant(ns, ns[b].parent, a))
    /\ mode = "into" => ns[b].kind = "folder"

\* activeId has left the children of its former parent p, unless p is where
\* it was put (q).
Unlinked(before, after, a, q) ==
    LET p == before[a].parent
    IN (IsFolder(before, p) /\ p # q)
          => after[p].children = filterOut(before[p].children, a)

\* Into: a is the last child of b, b is open, a's parent is b.
PlacedInto(before, after, a, b) ==
    /\ Unlinked(before, after, a, b)
    /\ after[b].children = Append(filterOut(before[b].children, a), a)
    /\ after[b].isOpen
    /\ after[a].parent = b

\* Before / After: a sits in the children of b's parent q right before /
\* right after b, the other children in the order they had; a's parent is q.
PlacedBeside(before, after, a, b, mode) ==
    LET q == before[b].parent
    IN /\ IsFolder(before, q)
       /\ Unlinked(before, after, a, q)
       /\ LET base == filterOut(before[q].children, a)
              i    == indexOf(base, b)
          IN /\ i >= 0
             /\ after[q].children =
                   spliceIn(base, IF mode = "before" THEN i ELSE i + 1, a)
       /\ after[a].parent = q

C11_ExampleWitness ==
    /\ last.op = "moveNode" /\ last.mode = "into"
    /\ prev[ROOT_ID].children = <<last.a, last.b>>
    /\ IsFolder(prev, last.a) /\ IsFolder(prev, last.b)
    /\ nodes[last.b].children = <<last.a>>
    /\ nodes[ROOT_ID].children = <<last.b>>

\* C12: AddNode effect.  addItem with a name that is not empty after
\* trimming and a parentId naming an existing folder adds exactly one node
\* (trimmed name, given kind, parent = parentId; a folder with no children
\* and open), appended last to the parent's children, opens the parent and
\* changes no other node.
C12_AddNodeEffect ==
    (/\ last.op = "addItem"
     /\ trim(last.name) # <<>>
     /\ IsFolder(prev, last.a))
    => \E id \in (DOMAIN nodes) \ (DOMAIN prev) :
          /\ DOMAIN nodes = (DOMAIN prev) \cup {id}
          /\ nodes[id] = IF last.kind = "folder"
                         THEN [id |-> id, kind |-> "folder", name |-> trim(last.name),
                               parent |-> last.a, children |-> <<>>, isOpen |-> TRUE]
                         ELSE [id |-> id, kind |-> "file", name |-> trim(last.name),
                               parent |-> last.a]
          /\ nodes[last.a] = [prev[last.a] EXCEPT !.children = Append(@, id),
                                                  !.isOpen = TRUE]
          /\ \A x \in DOMAIN prev : x # last.a => nodes[x] = prev[x]

\* C12 witness: a file with a padded name was added to a closed folder that
\* already had a child; it came last and the folder is open.
C12_Witness ==
    /\ last.op = "addItem" /\ last.kind = "file"
    /\ last.name = <<" ", "a", " ">>
    /\ IsFolder(prev, last.a) /\ last.a # ROOT_ID
    /\ ~prev[last.a].isOpen
    /\ Len(prev[last.a].children) = 1
    /\ Len(nodes[last.a].children) = 2
    /\ nodes[nodes[last.a].children[2]].name = <<"a">>
    /\ nodes[last.a].isOpen

\* addItem with a name that trims to nothing, or a parentId that names no
\* folder of the store (none at all included), leaves the store as it was.
AddValidated ==
    (/\ last.op = "addItem"
     /\ (trim(last.name) = <<>> \/ ~IsFolder(prev, last.a)))
    => nodes = prev

\* saveRename leaves the store as it was when the trimmed name is empty or
\* the selected id is no node, and else replaces that node's name alone.
RenameValidated ==
    last.op = "saveRename"
    => IF trim(last.name) = <<>> \/ ~Has(prev, last.a)
       THEN nodes = prev
       ELSE nodes = [prev EXCEPT ![last.a].name = trim(last.name)]

\* C13 (as claimed): Add/Rename validation.  addItem leaves the store
\* unchanged when the name is empty after trimming or parentId references no
\* existing folder (a missing / empty parentId included); saveRename leaves
\* it unchanged when the trimmed name is empty or the selected id is not in
\* the store, and otherwise replaces only that node's name by the trimmed
\* value.
C13_AddRenameValidation == AddValidated /\ RenameValidated

\* C14 (as claimed): Id freshness.  Every id uid() hands to addItem or
\* buildFromNested differs from every id handed out before it in the session
\* (the ids of the store and the deleted ones are among these) and from the
\* root's id, so a new node never takes the place of an existing one.
C14_IdFreshness ==
    /\ \A i, j \in 1..Len(drawn) : i # j => drawn[i] # drawn[j]
    /\ ROOT_ID \notin Range(drawn)

\* A drop of the row of node a on the row of another node b (the root has
\* no row: its header is neither dragged nor dropped on).
RowDrop ==
    /\ last.op = "onDragEnd"
    /\ Has(prev, last.a) /\ Has(prev, last.b)
    /\ last.a # last.b
    /\ last.a # ROOT_ID /\ last.b # ROOT_ID

\* The drop takes the sibling path: the target is a file, or Shift is down.
SiblingPath == prev[last.b].kind = "file" \/ last.shift

\* The target's parent lies in the subtree of the dragged folder (C9's case).
IntoOwnSubtree ==
    prev[last.b].parent \in {last.a} \cup Below(prev, last.a)

C15_IntoWitness ==
    /\ RowDrop /\ ~last.shift
    /\ prev[last.b].kind = "folder" /\ prev[last.a].kind = "file"
    /\ prev[last.a].parent # last.b
    /\ nodes[last.a].parent = last.b
    /\ nodes[last.b].children = Append(prev[last.b].children, last.a)

\* C16 (as claimed): Same-parent stable reorder.  When source and target of
\* a sibling drop share a parent, the parent's children afterwards are
\* arrayMove(children, indexOf(source), indexOf(target)) of the children
\* before, whether the source stood before or behind the target.
C16_SameParentStableReorder ==
    (/\ RowDrop /\ SiblingPath
     /\ prev[last.a].parent = prev[last.b].parent)
    => LET q == prev[last.a].parent
           children == prev[q].children
       IN nodes[q].children =
             arrayMove(children, indexOf(children, last.a), indexOf(children, last.b))

\* C17: Drop no-op.  A drop leaves the store as it was when the active id
\* and the target id are equal, when there is no target, or when either id
\* is no node of the store.
C17_DropNoOp ==
    (/\ last.op = "onDragEnd"
     /\ \/ last.a = last.b
        \/ last.b = Null
        \/ ~Has(prev, last.a)
        \/ ~Has(prev, last.b))
    => nodes = prev

\* C17 witness: a file that is not the first child of its parent was dropped
\* on itself, and the store is as it was.
C17_Witness ==
    /\ last.op = "onDragEnd"
    /\ last.a = last.b
    /\ Has(prev, last.a) /\ prev[last.a].kind = "file"
    /\ indexOf(prev[prev[last.a].parent].children, last.a) > 0
    /\ nodes = prev

\* C17 witness: a drop with no target, and one on an id the store lacks.
C17_AbsentWitness ==
    /\ last.op = "onDragEnd"
    /\ Has(prev, last.a) /\ last.a # ROOT_ID
    /\ last.b # Null /\ ~Has(prev, last.b)
    /\ nodes = prev

\* The subtree of a below ida and the subtree of b below idb have the same
\* shape, the same child order, the same names and the same kinds.
RECURSIVE SameTree(_, _, _, _)
SameTree(a, ida, b, idb) ==
    /\ a[ida].name = b[idb].name
    /\ a[ida].kind = b[idb].kind
    /\ a[ida].kind = "folder" =>
          /\ Len(a[ida].children) = Len(b[idb].children)
          /\ \A i \in 1..Len(a[ida].children) :
                SameTree(a, a[ida].children[i], b, b[idb].children[i])

\* The store buildFromNested makes of toNested(store, ROOT_ID).
RoundTrip(ns) == buildFromNested(toNested(ns, ROOT_ID), 1)

\* C18 (as claimed): Nested round-trip.  For every store the page reaches
\* (and still renders), buildFromNested(toNested(store, ROOT_ID)) is a tree
\* of the same shape, child order, names (the root's included) and kinds.
C18_NestedRoundTrip ==
    ui = "ok" => SameTree(nodes, ROOT_ID, RoundTrip(nodes), ROOT_ID)

\* C19: Flat round-trip.  Importing the text exportJson writes for a store
\* is accepted as a flat file and sets the store to the same mapping of ids
\* to node records: same ids, names, parents, children order and isOpen.
C19_FlatRoundTrip ==
    (last.op = "import" /\ last.text = exportJson(prev))
    => (last.mode = "flat" /\ nodes = prev)

\* C19 witness: the export of a store with a closed folder, a name holding a
\* quote and a backslash, and an empty root name was imported.
C19_Witness ==
    /\ last.op = "import" /\ last.text = exportJson(prev)
    /\ last.mode = "flat" /\ nodes = prev
    /\ prev[ROOT_ID].name = <<>>
    /\ \E f \in DOMAIN prev : IsFolder(prev, f) /\ ~prev[f].isOpen
    /\ \E x \in DOMAIN prev :
          prev[x].kind = "file" /\ prev[x].name = <<Quote, " ", Backslash>>

\* The text is a flat file { root_id, nodes } whose root_id is no key of its
\* nodes.
DanglingRootId(text) ==
    LET r == JSONparse(text)
        rootId == field(r.v, "root_id")
        ns == field(r.v, "nodes")
    IN /\ r.ok
       /\ rootId.t = "str" /\ ns.t = "obj"
       /\ \A i \in 1..Len(ns.keys) : ns.keys[i] # rootId.s

\* C20 (as claimed): Flat import validation.  Importing a flat file whose
\* root_id is no key of its nodes reports an error and leaves the store and
\* the selection as they were; and after every flat import that is accepted
\* the store holds the node "root".
C20_FlatImportValidation ==
    last.op = "import" =>
       /\ DanglingRootId(last.text) =>
             /\ last.mode \in {"failed", "unrecognized"}
             /\ nodes = prev
             /\ selectedId = last.a
       /\ last.mode = "flat" => Has(nodes, ROOT_ID)

\* C21: Format errors leave state unchanged.  Whenever the import reports an
\* error (the text is no JSON, the value is neither of the flat nor of the
\* nested form, or building it threw), the store, the selection, addParent
\* and the search string are what they were before the import.
C21_FormatErrorKeepsState ==
    (last.op = "import" /\ last.mode \in {"failed", "unrecognized", "threw"})
    => /\ nodes = prev
       /\ selectedId = last.a
       /\ addParent = last.addParent
       /\ search = last.search

\* C21 witness: with a node selected, a folder other than the root chosen
\* as addParent and a search string typed, an object of kind "file" was
\* imported and refused.
C21_Witness ==
    /\ last.op = "import" /\ last.mode = "unrecognized"
    /\ last.text = stringify(JObj1("kind", JStr(<<"file">>)))
    /\ selectedId # Null /\ selectedId = last.a
    /\ addParent # ROOT_ID /\ addParent = last.addParent
    /\ search # <<>> /\ search = last.search
    /\ nodes = prev /\ Cardinality(DOMAIN nodes) = 3

\* C21 witness: a text that is no JSON was refused.
C21_ParseWitness ==
    /\ last.op = "import" /\ last.mode = "failed"
    /\ selectedId # Null /\ search # <<>>
    /\ nodes = prev /\ selectedId = last.a /\ search = last.search

\* The imported text parses to a value the import takes as a nested
\* description.
TakenAsNested == last.op = "import" /\ importBranch(last.text) = "nested"

\* The store is a valid one that shows the documented defaults for the
\* value of the text: open folders, the root named by the value or
\* "PROJECT", one child of the root per entry of an array of children (none
\* for any other children field), of the entry's kind or a folder, named by
\* the entry or "untitled".
NestedDefaults ==
    LET data == JSONparse(last.text).v
        kids == IF field(data, "children").t = "arr"
                THEN field(data, "children").items ELSE <<>>
    IN /\ Consistent(nodes)
       /\ \A x \in DOMAIN nodes : nodes[x].kind = "folder" => nodes[x].isOpen
       /\ nodes[ROOT_ID].name = IF truthy(field(data, "name"))
                                THEN field(data, "name").s ELSE <<"PROJECT">>
       /\ Len(nodes[ROOT_ID].children) = Len(kids)
       /\ \A i \in 1..Len(kids) :
             LET c == nodes[nodes[ROOT_ID].children[i]]
             IN /\ c.kind = IF truthy(field(kids[i], "kind"))
                            THEN atom(field(kids[i], "kind").s) ELSE "folder"
                /\ c.name = IF truthy(field(kids[i], "name"))
                            THEN field(kids[i], "name").s ELSE <<"untitled">>

\* C22 (as claimed): Graceful nested import.  buildFromNested never fails on
\* a malformed nested description: for a root that is no object, a children
\* field that is no sequence, or a child entry that is null or no object, it
\* returns a valid store with the defaults (kind folder, name "untitled",
\* root name "PROJECT", folders open).
C22_GracefulNestedImport ==
    TakenAsNested => (last.mode = "nested" /\ NestedDefaults)

\* What holds of it: whenever buildFromNested returns, the store is valid
\* and shows the defaults.
NestedDefaultsWhenBuilt ==
    (TakenAsNested /\ last.mode = "nested") => NestedDefaults

\* text.split("\n")
RECURSIVE splitLines(_)
splitLines(text) ==
    IF \A i \in 1..Len(text) : text[i] # "\n" THEN <<text>>
    ELSE LET i == CHOOSE i \in 1..Len(text) :
                     text[i] = "\n" /\ \A j \in 1..(i - 1) : text[j] # "\n"
         IN <<SubSeq(text, 1, i - 1)>> \o splitLines(SubSeq(text, i + 1, Len(text)))

\* The folders other than the root that x lies below.
Ancestors(ns, x) == {a \in (DOMAIN ns) \ {ROOT_ID} : x \in Below(ns, a)}

\* 1 for a child of the root, 2 for a child of such a child, ...
Depth(ns, x) == Cardinality(Ancestors(ns, x)) + 1

IsLastChild(ns, x) ==
    LET siblings == ns[ns[x].parent].children IN siblings[Len(siblings)] = x

\* The children of x's parent that stand before x.
EarlierSiblings(ns, x) ==
    LET siblings == ns[ns[x].parent].children
    IN {siblings[j] : j \in 1..indexOf(siblings, x)}

\* The nodes a depth-first walk in children order meets before x: the
\* ancestors of x, and the earlier siblings of x and of its ancestors with
\* all that lies below them.
MetBefore(ns, x) ==
    Ancestors(ns, x)
    \cup UNION {{sib} \cup Below(ns, sib) :
                  sib \in UNION {EarlierSiblings(ns, a) : a \in Ancestors(ns, x) \cup {x}}}

\* What the ancestors of x contribute to its line, the outermost first: four
\* blanks for a last child, the bar and three blanks for any other.
PrefixOf(ns, x) ==
    [i \in 1..(4 * (Depth(ns, x) - 1)) |->
        LET a == CHOOSE a \in Ancestors(ns, x) : Depth(ns, a) = ((i - 1) \div 4) + 1
        IN (IF IsLastChild(ns, a) THEN LastExt ELSE MidExt)[((i - 1) % 4) + 1]]

\* C23: Connector tree rendering.  For every consistent store, unicodeTree
\* is the root's bare name followed by one line per non-root node in
\* depth-first children order; the line of a node is the contributions of
\* its ancestors, the connector of a last child or of any other child, and
\* its name.
C23_ConnectorTree ==
    Consistent(nodes) =>
       LET lines == splitLines(unicodeTree(nodes, ROOT_ID))
       IN /\ Len(lines) = Cardinality(DOMAIN nodes)
          /\ lines[1] = nodes[ROOT_ID].name
          /\ \A x \in (DOMAIN nodes) \ {ROOT_ID} :
                lines[2 + Cardinality(MetBefore(nodes, x))] =
                   PrefixOf(nodes, x)
                   \o (IF IsLastChild(nodes, x) THEN LastConnector ELSE MidConnector)
                   \o nodes[x].name

\* C23 witness: a folder with a file in it, followed by a sibling: the
\* folder's line has the tee, the file in it the bar and three blanks and
\* then the corner, the sibling the corner.
C23_Witness ==
    /\ Consistent(nodes)
    /\ \E f, c, sib \in DOMAIN nodes :
          /\ nodes[ROOT_ID].children = <<f, sib>>
          /\ nodes[f].kind = "folder" /\ nodes[f].children = <<c>>
          /\ nodes[c].name = <<Quote, "b", Quote>>
          /\ unicodeTree(nodes, ROOT_ID) =
                join(<< nodes[ROOT_ID].name,
                        MidConnector \o nodes[f].name,
                        MidExt \o LastConnector \o nodes[c].name,
                        LastConnector \o nodes[sib].name >>)

\* C23 witness of the claim's example: the root PROJECT, a folder in it and
\* a file in the folder give three lines, the last one indented by four
\* blanks.
C23_ExampleWitness ==
    /\ nodes[ROOT_ID].name = <<"PROJECT">>
    /\ \E f, c \in DOMAIN nodes :
          /\ nodes[ROOT_ID].children = <<f>>
          /\ nodes[f].kind = "folder" /\ nodes[f].children = <<c>>
          /\ nodes[c].kind = "file"
          /\ splitLines(unicodeTree(nodes, ROOT_ID)) =
                << <<"PROJECT">>,
                   <<"L", "-", "-", " ">> \o nodes[f].name,
                   <<" ", " ", " ", " ", "L", "-", "-", " ">> \o nodes[c].name >>

\* How many of the lines are the given line.
Times(lines, line) == Cardinality({i \in 1..Len(lines) : lines[i] = line})

\* mermaid(ns, ROOT_ID) describes the tree of ns: after the header, one
\* declaration per node of the tree below the root, one edge per folder and
\* child of the children arrays, from the folder's diagram id to the
\* child's; distinct nodes have distinct diagram ids; the only quotes of a
\* line are the two around a label.
DiagramDescribes(ns) ==
    LET lines == splitLines(mermaid(ns, ROOT_ID))
        tree  == {ROOT_ID} \cup Below(ns, ROOT_ID)
        pairs == {fc \in (DOMAIN ns) \X (DOMAIN ns) :
                     IsFolder(ns, fc[1]) /\ Count(ns[fc[1]].children, fc[2]) > 0}
    IN /\ Len(lines) = 1 + Cardinality(tree) + Cardinality(pairs)
       /\ \A x \in tree : Times(lines, declaration(ns, ns[x])) = 1
       /\ \A fc \in pairs :
             Times(lines, <<" ", " ">> \o idMap(ns, fc[1]) \o <<" ", "-", "-", ">", " ">>
                          \o idMap(ns, fc[2])) = 1
       /\ \A x, y \in DOMAIN ns : x # y => idMap(ns, x) # idMap(ns, y)
       /\ \A i \in 1..Len(lines) : Count(lines[i], Quote) \in {0, 2}

\* C24 (as claimed): Diagram description.  For every store the page reaches
\* and renders, mermaid emits exactly one declaration per node of the tree
\* rooted at the root and exactly one edge per (folder, child) pair of the
\* children arrays, from the parent's diagram id to the child's; distinct
\* nodes get distinct diagram ids and no label contains a double quote.
C24_DiagramDescription == ui = "ok" => DiagramDescribes(nodes)

\* What holds of it: the same for every consistent store.
DiagramOfConsistent == Consistent(nodes) => DiagramDescribes(nodes)

\* The recorded call is one of a Structural Mutator with illegal arguments:
\* an id or parentId that is no node of the store, or a parentId that is a
\* file.  (addItem without any parentId is C13's case and left out here.)
IllegalCall ==
    CASE last.op \in {"removeSubtree", "saveRename", "toggleFolder"} -> ~Has(prev, last.a)
      [] last.op = "addItem" -> last.a # Null /\ ~IsFolder(prev, last.a)
      [] last.op = "setChildrenOrder" -> ~IsFolder(prev, last.a)
      [] last.op = "moveNode" ->
            \/ ~Has(prev, last.a) \/ ~Has(prev, last.b)
            \/ (last.mode = "into" /\ ~IsFolder(prev, last.b))
      [] OTHER -> FALSE

\* C25 (as claimed): Totality.  Every Structural Mutator (addItem,
\* removeSubtree, saveRename, toggleFolder, moveNode, setChildrenOrder)
\* returns a store for every argument combination and never throws; with
\* illegal arguments it returns the store it was given.
C25_Totality ==
    /\ last.mode # "threw"
    /\ IllegalCall => nodes = prev

\* What holds of it: the same for every mutator but setChildrenOrder.
TotalButSetChildrenOrder == last.op # "setChildrenOrder" => C25_Totality

\* The ids of before that are still in after, in the order before has them.
Surviving(before, after) == SelectSeq(before, LAMBDA c : c \in Range(after))

\* The recorded call is a move of the node last.a.
MoveCall == last.op \in {"moveNode", "moveSelectedTo", "siblingDrop", "onDragEnd"}

\* C27: Child order preservation.  addItem, saveRename, toggleFolder and
\* removeSubtree never change the relative order of the surviving children
\* of any folder; a move (moveNode, moveSelectedTo, a drop) changes children
\* lists only by taking the moved id out of the list of its old parent and
\* putting it in the list of its new parent: all other ids keep their lists
\* and their order.
C27_ChildOrderPreserved ==
    /\ last.op \in {"addItem", "saveRename", "toggleFolder", "removeSubtree"} =>
          \A f \in (DOMAIN prev) \cap (DOMAIN nodes) :
             (IsFolder(prev, f) /\ IsFolder(nodes, f)) =>
                Surviving(prev[f].children, nodes[f].children)
                   = Surviving(nodes[f].children, prev[f].children)
    /\ MoveCall =>
          /\ DOMAIN nodes = DOMAIN prev
          /\ \A f \in DOMAIN prev :
                IsFolder(prev, f) =>
                   filterOut(nodes[f].children, last.a) = filterOut(prev[f].children, last.a)
          /\ nodes # prev =>
                \A f \in DOMAIN nodes :
                   IsFolder(nodes, f) =>
                      Count(nodes[f].children, last.a)
                         = (IF f = nodes[last.a].parent THEN 1 ELSE 0)

\* C27 witness: the middle one of three children was moved by
\* moveSelectedTo into the first, a folder; the other two kept their order.
C27_Witness ==
    /\ last.op = "moveSelectedTo"
    /\ Len(prev[ROOT_ID].children) = 3
    /\ last.a = prev[ROOT_ID].children[2]
    /\ last.b = prev[ROOT_ID].children[1]
    /\ nodes[ROOT_ID].children = <<prev[ROOT_ID].children[1], prev[ROOT_ID].children[3]>>
    /\ nodes[last.b].children = <<last.a>>

\* C27 witness: a folder that is the middle one of three children was
\* removed, and the other two kept their order.
C27_RemoveWitness ==
    /\ last.op = "removeSubtree"
    /\ Len(prev[ROOT_ID].children) = 3
    /\ last.a = prev[ROOT_ID].children[2]
    /\ nodes[ROOT_ID].children = <<prev[ROOT_ID].children[1], prev[ROOT_ID].children[3]>>

\* newOrder holds the children of parentId, each once.
IsPermutation(newOrder, children) ==
    /\ Len(newOrder) = Len(children)
    /\ \A c \in Range(children) \cup Range(newOrder) :
          Count(newOrder, c) = Count(children, c)

\* C28: ReorderChildren.  setChildrenOrder(store, parentId, newOrder), for
\* a parentId that is a node of the store, replaces the node's children by
\* newOrder and changes nothing else, whether newOrder is a permutation of
\* the children or not; when it is one and parentId is a folder of a
\* consistent store, the result has the same nodes and is consistent in
\* both directions.
C28_ReorderChildren ==
    (last.op = "setChildrenOrder" /\ Has(prev, last.a)) =>
       /\ DOMAIN nodes = DOMAIN prev
       /\ nodes[last.a].children = last.order
       /\ \A k \in (DOMAIN prev[last.a]) \ {"children"} : nodes[last.a][k] = prev[last.a][k]
       /\ \A x \in DOMAIN prev : x # last.a => nodes[x] = prev[x]
       /\ (/\ IsFolder(prev, last.a)
           /\ IsPermutation(last.order, prev[last.a].children)
           /\ Consistent(prev))
          => Consistent(nodes)

\* C28 witness: the three children of a folder were put in reverse order.
C28_Witness ==
    /\ last.op = "setChildrenOrder"
    /\ IsFolder(prev, last.a)
    /\ Len(prev[last.a].children) = 3
    /\ last.order = <<prev[last.a].children[3], prev[last.a].children[2],
                      prev[last.a].children[1]>>
    /\ nodes[last.a].children = last.order
    /\ Consistent(nodes)

\* C28 witness: an order that is no permutation (an id twice, of which the
\* folder holds one) was applied as it is.
C28_UnvalidatedWitness ==
    /\ last.op = "setChildrenOrder"
    /\ IsFolder(prev, last.a)
    /\ prev[last.a].children = <<IdPool[1]>>
    /\ last.order = <<IdPool[1], IdPool[1]>>
    /\ nodes[last.a].children = last.order

\* C29 (as claimed): Selection validity.  In every state the page reaches,
\* under every interleaving of the user events (select, Delete on any row
\* or for the selected item, Reset, a template, the completion of an
\* import) with the delayed callback of jumpToFirstMatch, selectedId is
\* null or the id of a node of the store.
C29_SelectionValidity == selectedId = Null \/ Has(nodes, selectedId)

\* On the store ns every tree walk ends: isDescendant for any two ids, the
\* subtree collection of removeSubtree from any id, and the
\* ancestor-opening loop of jumpToFirstMatch from any node.
WalksEnd(ns) ==
    /\ \A a, b \in Ids \cup {Null} : ~isDescendantLoops(ns, a, b)
    /\ \A a \in Ids : ~walkLoops(ns, a)
    /\ \A a \in DOMAIN ns : ~openAncestorsLoops(ns, a, {a})

\* C30 (as claimed): Termination of tree walks.  On every store reached
\* through the page (adds, deletes, moveSelectedTo, drops into a folder and
\* sibling drops), isDescendant(store, a, b) for any ids, the subtree
\* collection loop of removeSubtree and the ancestor-opening loop of
\* jumpToFirstMatch all terminate.
C30_TreeWalksTerminate == WalksEnd(nodes)

\* What holds of it: on every consistent store the walks end.
WalksEndOnConsistent == Consistent(nodes) => WalksEnd(nodes)

\* The store a mutator returned on the heap is the store the mutator of the
\* node store section returns for the same call.
HeapAgrees ==
    last.heap =>
       nodes = CASE last.op = "toggleFolder" -> toggleFolderStore(prev, last.a)
                 [] last.op = "addItem" ->
                       addItemStore(prev, last.mode, <<"b">>, last.a, last.b)
                 [] last.op = "saveRename" -> saveRenameStore(prev, last.a, <<"b">>)
                 [] last.op = "setChildrenOrder" ->
                       IF last.mode = "threw" THEN prev
                       ELSE CHOOSE ns \in {setChildrenOrder(prev, last.a, o) :
                                              o \in Orders(prev, last.a)} :
                               ns[last.a].children = nodes[last.a].children
                 [] last.op = "removeSubtree" -> removeSubtree(prev, last.a)
                 [] last.op = "moveNode" -> moveNode(prev, last.a, last.b, last.mode)
                 [] last.op = "moveSelectedTo" -> moveSelectedResult(prev, last.a, last.b)
                 [] last.op = "siblingDrop" -> siblingDrop(prev, last.a, last.b)

\* C26: Copy-on-write.  No mutator (removeSubtree, moveNode,
\* setChildrenOrder, addItem, saveRename, toggleFolder, moveSelectedTo, the
\* sibling drop) changes the store it was given: after the call the given
\* store object shows the nodes, fields and children lists it showed
\* before, whether the call changed anything or was rejected.
C26_CopyOnWrite == last.heap => last.given = prev

\* C26 witness: a move "into" a folder was carried out; the returned store
\* differs from the given one, which is as it was.
C26_Witness ==
    /\ last.heap /\ last.op = "moveNode" /\ last.mode = "into"
    /\ nodes # prev
    /\ nodes[last.a].parent = last.b
    /\ last.given = prev
    /\ prev[last.a].parent # last.b

\* C26 witness of a rejected call: a move "into" a file, refused after the
\* copy had lost activeId from its old parent; the given store is returned
\* and is as it was.
C26_RejectedWitness ==
    /\ last.heap /\ last.op = "moveNode" /\ last.mode = "into"
    /\ Has(prev, last.a) /\ Has(prev, last.b) /\ last.a # last.b
    /\ last.a # ROOT_ID /\ prev[last.b].kind = "file"
    /\ nodes = prev /\ last.given = prev

====
